---- MODULE Spec2Model ----
(***************************************************************************)
(* A model of the transaction balancing code of ickb/utils:                *)
(*   - UdtManager (src/src/udt.ts): UDT balances, findUdts, completeUdt    *)
(*   - SmartTransaction (src/src/transaction.ts): completeFee, the header  *)
(*     cache (addHeaders, getHeader) and getInputsCapacity                 *)
(* Amounts and capacities are small naturals standing for bigints; output  *)
(* data is a sequence of bytes, so that the Uint128LE / Uint64LE encodings *)
(* and udtBalanceFrom are computed, not assumed.                           *)
(***************************************************************************)
EXTENDS Integers, Sequences, FiniteSets, TLC

VARIABLES
    inputs,       \* tx.inputs: sequence of cells (resolved or not)
    outputs,      \* tx.outputs zipped with tx.outputsData
    cellDeps,     \* tx.cellDeps
    udtHandlers,  \* tx.udtHandlers: the Map, as its entries in insertion order
    headers,      \* tx.headers: the header cache, a function from encoded keys
    headerDeps,   \* tx.headerDeps: sequence of header hashes
    chain,        \* the live cells the client's search yields, in "asc" order
    permissive,   \* whether the client ignores the lock/type filter of a query
    call,         \* the last completeUdt call: arguments, pre-state, outcome
    ncalls,       \* number of completeUdt / completeFee calls made so far
    fee,          \* the last completeFee call and its outcome
    legacy,       \* the two-pass completeFee in progress: position and log
    hop,          \* the last header operation: arguments, pre-state, outcome
    objs,         \* the transactions of a lineage and the objects they refer to
    lop,          \* the last clone / copy / add on a lineage: pre-state, outcome
    ecur,         \* the Epoch instance at hand
    eop,          \* the last Epoch operation: operands and outcome
    fop,          \* the last findUdts / findCapacities call and what it yielded
    heap,         \* the array of a MinHeap
    mop,          \* the last MinHeap operation: arguments, pre-state, outcome
    run,          \* the completeFee call in progress: position, log of its steps
    bg,           \* a BufferedGenerator, its generator, and the last call on it
    bsr,          \* the last binarySearch call: arguments, calls of f, outcome
    pend          \* a completeFee that does not await the base completion

txVars == <<inputs, outputs, cellDeps, udtHandlers>>
envVars == <<chain, permissive>>
udtVars == <<call, ncalls>>
feeVars == <<fee>>
legacyVars == <<legacy>>
headerVars == <<headers, headerDeps, hop>>
lineageVars == <<objs, lop>>
epochVars == <<ecur, eop>>
findVars == <<fop>>
heapVars == <<heap, mop>>
runVars == <<run>>
utilVars == <<bg, bsr, pend>>
otherVars == <<lineageVars, epochVars, findVars, heapVars, runVars, utilVars>>

vars == <<txVars, envVars, udtVars, feeVars, legacyVars, headerVars, otherVars>>

-----------------------------------------------------------------------------
(* Bounds of the model *)

MaxInputs == 1
MaxOutputs == 2
MaxCalls == 2

-----------------------------------------------------------------------------
(* Scripts, handlers, signer *)

NoType == "none"

\* new UdtManager(script, cellDeps, name, symbol, decimals)
UdtA == [script |-> "udtA", cellDeps |-> <<"depA">>, name |-> "Token A",
         symbol |-> "AAA", decimals |-> 8]

\* signer.getAddressObjs() mapped to their scripts; one lock appears twice
SignerLocks == <<"lockS1", "lockS2", "lockS1">>

\* signer.getRecommendedAddressObj().script
RecommendedLock == "lockS1"

-----------------------------------------------------------------------------
(* Byte encodings *)

Min(a, b) == IF a < b THEN a ELSE b

RECURSIVE EncLE(_, _)
\* little-endian encoding of n on k bytes (mol.Uint128LE.encode for k = 16)
EncLE(n, k) == IF k = 0 THEN <<>> ELSE <<n % 256>> \o EncLE(n \div 256, k - 1)

RECURSIVE DecLE(_)
\* little-endian value of a byte sequence
DecLE(b) == IF b = <<>> THEN 0 ELSE Head(b) + 256 * DecLE(Tail(b))

Uint128LEEncode(n) == EncLE(n, 16)

\* ccc.udtBalanceFrom: the first 16 bytes (or fewer) read little-endian
udtBalanceFrom(data) == DecLE(SubSeq(data, 1, Min(16, Len(data))))

\* length of the hex string "0x.." of a byte sequence
HexLength(data) == 2 + 2 * Len(data)

-----------------------------------------------------------------------------
(* Cells *)

Cell(id, lock, type, capacity, data, known) ==
    [id |-> id, lock |-> lock, type |-> type, capacity |-> capacity,
     data |-> data, known |-> known]

Output(lock, type, capacity, data) ==
    [lock |-> lock, type |-> type, capacity |-> capacity, data |-> data]

\* Capacities are in units in which a cell with a type script and 16 bytes
\* of data occupies 2 and a cell without type script occupies 1; every cell
\* holds at least the capacity it occupies.

\* cells a caller may add as inputs with tx.addInput
UserCells ==
    { Cell("u1", "lockS1", "udtA", 2, Uint128LEEncode(3), TRUE),
      Cell("u2", "lockS1", "udtA", 2, <<7>>, TRUE),
      Cell("u3", "lockS1", NoType, 4, <<>>, FALSE) }

\* outputs a caller may add with tx.addOutput
UserOutputs ==
    { Output("lockX", "udtA", 4, Uint128LEEncode(5)),
      Output("lockX", "udtA", 2, <<2>>),
      Output("lockX", NoType, 3, <<>>) }

\* the live cells of the chain, in the order the client returns them
ChainCells ==
    << Cell("k1", "lockS1", "udtA", 3, Uint128LEEncode(4), TRUE),
       Cell("k2", "lockS1", "udtA", 2, <<9>>, TRUE),
       Cell("k3", "lockX", "udtA", 6, Uint128LEEncode(8), TRUE),
       Cell("k4", "lockS2", "udtA", 2, Uint128LEEncode(260), TRUE),
       Cell("k5", "lockS2", "udtA", 2, Uint128LEEncode(1), TRUE) >>

\* the chains considered: the client finds the live cells whether or not the
\* transaction under construction already spends them (u1 is such a cell)
Chains ==
    { ChainCells,
      SubSeq(ChainCells, 1, 3),
      <<Cell("u1", "lockS1", "udtA", 2, Uint128LEEncode(3), TRUE)>> \o SubSeq(ChainCells, 1, 1),
      <<>> }

-----------------------------------------------------------------------------
(* The transaction as a value: what completeUdt reads and writes *)

Tx(ins, outs, deps, handlers) ==
    [inputs |-> ins, outputs |-> outs, cellDeps |-> deps, udtHandlers |-> handlers]

RECURSIVE SumSeq(_)
SumSeq(s) == IF s = <<>> THEN 0 ELSE Head(s) + SumSeq(Tail(s))

RECURSIVE AddUnique(_, _)
\* ccc addCellDeps: appends the deps that are not yet present
AddUnique(deps, more) ==
    IF more = <<>> THEN deps
    ELSE AddUnique(IF \E i \in 1..Len(deps) : deps[i] = Head(more)
                   THEN deps ELSE Append(deps, Head(more)),
                   Tail(more))

\* the Script objects behind the script names of the model: code hash, hash
\* type (as its byte) and args. "udtA'" is a second object with the fields of
\* "udtA"; "udtB" and "udtC" differ in their args only. The locks share one
\* code hash; "lockS1'" is a second object with the fields of "lockS1".
ScriptOf(name) ==
    CASE name = "udtA" -> [codeHash |-> <<10, 1>>, hashType |-> 1, args |-> <<7>>]
      [] name = "udtA'" -> [codeHash |-> <<10, 1>>, hashType |-> 1, args |-> <<7>>]
      [] name = "udtB" -> [codeHash |-> <<10, 1>>, hashType |-> 1, args |-> <<7, 0>>]
      [] name = "udtC" -> [codeHash |-> <<10, 1>>, hashType |-> 1, args |-> <<>>]
      [] name = "dao" -> [codeHash |-> <<13, 10>>, hashType |-> 1, args |-> <<>>]
      [] name = "lockS1" -> [codeHash |-> <<20, 1>>, hashType |-> 1, args |-> <<1>>]
      [] name = "lockS1'" -> [codeHash |-> <<20, 1>>, hashType |-> 1, args |-> <<1>>]
      [] name = "lockS2" -> [codeHash |-> <<20, 1>>, hashType |-> 1, args |-> <<2>>]
      [] name = "lockX" -> [codeHash |-> <<20, 1>>, hashType |-> 1, args |-> <<9>>]
      [] OTHER -> [codeHash |-> <<0, 0>>, hashType |-> 0, args |-> <<>>]

\* a 32-bit number in little-endian order, as EncLE(n, 4) gives it
Uint32LE(n) ==
    <<n % 256, (n \div 256) % 256, (n \div 65536) % 256, (n \div 16777216) % 256>>

\* the molecule table of a Script: total size, the three offsets, the fields
ScriptTable(sc, fields) ==
    Uint32LE(16 + Len(fields)) \o Uint32LE(16) \o Uint32LE(16 + Len(sc.codeHash))
        \o Uint32LE(17 + Len(sc.codeHash)) \o fields

\* ccc.Script.toBytes(): the molecule table of code hash, hash type and args
\* (full size and three offsets on 4 bytes each, then the fields, the args
\* preceded by their length)
ScriptBytes(sc) ==
    ScriptTable(sc, sc.codeHash \o <<sc.hashType>> \o Uint32LE(Len(sc.args)) \o sc.args)

\* a.eq(b) on Scripts: their bytes are equal (one object equals itself)
scriptEq(a, b) == a = b \/ ScriptBytes(ScriptOf(a)) = ScriptBytes(ScriptOf(b))

\* cellOutput.type?.eq(script): false for a cell without type script
typeEq(type, script) == type # NoType /\ scriptEq(type, script)

\* encodeUdtKey: the key of a handler in the udtHandlers map,
\* hexFrom(ccc.Script.from(udt))
encodeUdtKey(script) == ScriptBytes(ScriptOf(script))

\* addUdtHandlers for one handler: Map.set keeps the position of an existing
\* key and replaces its value; then the handler's cellDeps are added
addUdtHandler(tx, h) ==
    LET hs == tx.udtHandlers
        at == {i \in 1..Len(hs) : encodeUdtKey(hs[i].script) = encodeUdtKey(h.script)}
    IN  [tx EXCEPT !.udtHandlers =
                     IF at = {} THEN Append(hs, h)
                     ELSE [i \in 1..Len(hs) |-> IF i \in at THEN h ELSE hs[i]],
                   !.cellDeps = AddUnique(tx.cellDeps, h.cellDeps)]

-----------------------------------------------------------------------------
(* UdtManager *)

\* isUdt: type equals the handler's script and the data hex has >= 34 chars
isUdt(h, cell) == typeEq(cell.type, h.script) /\ HexLength(cell.data) >= 34

\* getInputsUdtBalance: completeExtraInfos on every input, then the sums over
\* the inputs that pass isUdt; "incomplete" when some input does not resolve
getInputsUdtBalance(h, ins) ==
    IF \E i \in 1..Len(ins) : ~ins[i].known
    THEN [ok |-> FALSE, udt |-> 0, capacity |-> 0]
    ELSE LET sel == SelectSeq(ins, LAMBDA c : isUdt(h, c))
         IN  [ok |-> TRUE,
              udt |-> SumSeq([i \in 1..Len(sel) |-> udtBalanceFrom(sel[i].data)]),
              capacity |-> SumSeq([i \in 1..Len(sel) |-> sel[i].capacity])]

\* getOutputsUdtBalance: the sums over the outputs whose type is the script
getOutputsUdtBalance(h, outs) ==
    LET sel == SelectSeq(outs, LAMBDA o : typeEq(o.type, h.script))
    IN  [udt |-> SumSeq([i \in 1..Len(sel) |-> udtBalanceFrom(sel[i].data)]),
         capacity |-> SumSeq([i \in 1..Len(sel) |-> sel[i].capacity])]

RECURSIVE unique(_)
\* unique: the first occurrence of every item, in order; items are the same
\* when their bytes (hexFrom) are
unique(items) ==
    IF items = <<>> THEN <<>>
    ELSE LET rest == unique(SubSeq(items, 1, Len(items) - 1))
             x == items[Len(items)]
         IN  IF \E i \in 1..Len(rest) : scriptEq(rest[i], x) THEN rest ELSE Append(rest, x)

\* client.findCells({script: lock, filter: {script}}, "asc", limit): an honest
\* client applies the filter, a permissive one returns every live cell
ClientFindCells(cells, lock, script, perm) ==
    SelectSeq(cells, LAMBDA c : perm \/ (scriptEq(c.lock, lock) /\ typeEq(c.type, script)))

UdtCellOf(cell) ==
    [cell |-> cell, ckbValue |-> cell.capacity, udtValue |-> udtBalanceFrom(cell.data)]

RECURSIVE findUdtsFromTrusting(_, _, _, _)
\* mutant: what the client returns is yielded without a look at it
findUdtsFromTrusting(h, cells, locks, perm) ==
    IF locks = <<>> THEN <<>>
    ELSE [i \in 1..Len(ClientFindCells(cells, Head(locks), h.script, perm)) |->
              UdtCellOf(ClientFindCells(cells, Head(locks), h.script, perm)[i])]
             \o findUdtsFromTrusting(h, cells, Tail(locks), perm)

RECURSIVE findUdtsFrom(_, _, _, _)
findUdtsFrom(h, cells, locks, perm) ==
    IF locks = <<>> THEN <<>>
    ELSE LET lock == Head(locks)
             got == SelectSeq(ClientFindCells(cells, lock, h.script, perm),
                              LAMBDA c : isUdt(h, c) /\ scriptEq(c.lock, lock))
         IN  [i \in 1..Len(got) |-> UdtCellOf(got[i])]
             \o findUdtsFrom(h, cells, Tail(locks), perm)

\* findUdts: the whole sequence the generator would yield
findUdts(h, cells, locks, perm) == findUdtsFrom(h, cells, unique(locks), perm)

\* mutant: the last selected cell is not added as an input
addUdtsDropLast(h, tx, udts) ==
    IF udts = <<>> THEN tx
    ELSE [tx EXCEPT !.inputs = tx.inputs \o [i \in 1..(Len(udts) - 1) |-> udts[i].cell]]

\* addUdts: nothing for an empty list; else cellDeps, handler and the inputs
addUdts(h, tx, udts) ==
    IF udts = <<>> THEN tx
    ELSE LET t == addUdtHandler([tx EXCEPT !.cellDeps = AddUnique(tx.cellDeps, h.cellDeps)], h)
         IN  [t EXCEPT !.inputs = tx.inputs \o [i \in 1..Len(udts) |-> udts[i].cell]]

\* mutant: the search ends as soon as the UDT target is met
SufficientUdtOnly(inUdt, inCapacity, outUdt, outCapacity) == inUdt >= outUdt

\* the loop condition that ends the search: both targets are met
Sufficient(inUdt, inCapacity, outUdt, outCapacity) ==
    inUdt >= outUdt /\ inCapacity >= outCapacity

RECURSIVE Pulled(_, _, _, _, _, _, _)
\* the number of cells the for-await loop of completeUdt pulls from found,
\* having pulled n already with the running sums inUdt, inCapacity
Pulled(found, n, inUdt, inCapacity, outUdt, outCapacity, compressState) ==
    IF n = Len(found) THEN n
    ELSE LET u == inUdt + found[n + 1].udtValue
             c == inCapacity + found[n + 1].ckbValue
         IN  IF ~compressState /\ Sufficient(u, c, outUdt, outCapacity)
             THEN n + 1
             ELSE Pulled(found, n + 1, u, c, outUdt, outCapacity, compressState)

\* whether completeUdt enters the search
ShouldSearch(inUdt, inCapacity, outUdt, outCapacity, shouldAddInputs) ==
    (inUdt < outUdt \/ inCapacity < outCapacity) /\ shouldAddInputs

\* the test that throws ErrorTransactionInsufficientCoin
InsufficientCoinLe(inUdt, outUdt) == inUdt <= outUdt
InsufficientCoin(inUdt, outUdt) == inUdt < outUdt

\* capacity ccc's addOutput gives an output added without one: its occupied
\* size (here in the model's units)
ChangeCapacity == 2

\* mutant: the change amount written as a 64-bit number
ChangeOutput64(h, amount) ==
    Output(RecommendedLock, h.script, ChangeCapacity, EncLE(amount, 8))

\* the change output of completeUdt
ChangeOutput(h, amount) ==
    Output(RecommendedLock, h.script, ChangeCapacity, Uint128LEEncode(amount))

Result(kind, inAdded, change, amount, h) ==
    [kind |-> kind, inAdded |-> inAdded, change |-> change, amount |-> amount,
     script |-> h.script, symbol |-> h.symbol, decimals |-> h.decimals]

\* the end of completeUdt, for the transaction t with the n pulled cells
\* added and the input total inUdt that counts them
completeUdtEnd(h, t, inUdt, outUdt, n, search, found) ==
    IF InsufficientCoin(inUdt, outUdt)
    THEN [tx |-> t, res |-> Result("insufficient", n, FALSE, outUdt - inUdt, h),
          searched |-> search, found |-> found, pulled |-> n]
    ELSE IF inUdt = outUdt
    THEN [tx |-> t, res |-> Result("ok", n, FALSE, 0, h),
          searched |-> search, found |-> found, pulled |-> n]
    ELSE [tx |-> [t EXCEPT !.outputs = Append(t.outputs, ChangeOutput(h, inUdt - outUdt))],
          res |-> Result("ok", n, TRUE, 0, h),
          searched |-> search, found |-> found, pulled |-> n]

\* this.addUdts(tx, udts) for the n cells the loop has pulled from found
completeUdtPulled(h, tx, inB, outB, search, found, n) ==
    completeUdtEnd(h, addUdts(h, tx, SubSeq(found, 1, n)),
                   inB.udt + SumSeq([i \in 1..n |-> found[i].udtValue]),
                   outB.udt, n, search, found)

\* the for-await loop over what findUdts yields
completeUdtFound(h, tx, inB, outB, search, found, opts) ==
    completeUdtPulled(h, tx, inB, outB, search, found,
                      Pulled(found, 0, inB.udt, inB.capacity, outB.udt, outB.capacity,
                             opts.compressState))

\* completeUdt after the two balances were read
completeUdtFrom(h, tx, inB, outB, search, cells, perm, opts) ==
    IF ~inB.ok
    THEN [tx |-> tx, res |-> Result("incomplete", 0, FALSE, 0, h),
          searched |-> FALSE, found |-> <<>>, pulled |-> 0]
    ELSE completeUdtFound(h, tx, inB, outB, search,
                          IF search THEN findUdts(h, cells, SignerLocks, perm) ELSE <<>>,
                          opts)

completeUdtBalances(h, tx, inB, outB, cells, perm, opts) ==
    completeUdtFrom(h, tx, inB, outB,
                    ShouldSearch(inB.udt, inB.capacity, outB.udt, outB.capacity,
                                 opts.shouldAddInputs),
                    cells, perm, opts)

\* completeUdt(signer, tx, options): the transaction it leaves and its outcome.
\* res.kind is "ok" (returns [inAdded, change]), "insufficient"
\* (ErrorTransactionInsufficientCoin of res.amount) or "incomplete"
\* ("Unable to complete input").  found/pulled describe the search.
completeUdt(h, tx, cells, perm, opts) ==
    completeUdtBalances(h, tx, getInputsUdtBalance(h, tx.inputs),
                        getOutputsUdtBalance(h, tx.outputs), cells, perm, opts)

-----------------------------------------------------------------------------
(* Specification Spec: a transaction under construction and completeUdt *)

Options == [shouldAddInputs : BOOLEAN, compressState : BOOLEAN]

NoCall == [made |-> FALSE]

\* the two-pass completeFee is not running
LegacyIdle ==
    [pc |-> "idle", pass1 |-> <<>>, pass2 |-> <<>>, nativeStarted |-> FALSE,
     error |-> "none"]

\* new Map(): the empty header cache
EmptyCache == <<>>

\* no transaction of a lineage exists yet
EmptyObjs == [txs |-> <<>>, bodies |-> <<>>, handlerMaps |-> <<>>, caches |-> <<>>]

\* no completeFee call is in progress
RunIdle ==
    [pc |-> "idle", next |-> 1, opts |-> [shouldAddInputs |-> TRUE, compressState |-> FALSE],
     order |-> <<>>, start |-> [inputs |-> <<>>, outputs |-> <<>>], log |-> <<>>,
     base |-> NoCall, inAdded |-> 0, addedChange |-> FALSE, error |-> "none"]

\* the parts of the state a specification about other parts leaves idle
OthersIdle ==
    /\ objs = EmptyObjs
    /\ lop = NoCall
    /\ ecur = NoCall
    /\ eop = NoCall
    /\ fop = NoCall
    /\ heap = <<>>
    /\ mop = NoCall
    /\ run = RunIdle
    /\ bg = NoCall
    /\ bsr = NoCall
    /\ pend = NoCall

Init ==
    /\ inputs = <<>>
    /\ outputs = <<>>
    /\ cellDeps = <<>>
    /\ udtHandlers = <<>>
    /\ chain \in Chains
    /\ permissive \in BOOLEAN
    /\ call = NoCall
    /\ ncalls = 0
    /\ fee = NoCall
    /\ legacy = LegacyIdle
    /\ headers = EmptyCache
    /\ headerDeps = <<>>
    /\ hop = NoCall
    /\ OthersIdle

\* tx.addInput(cell)
AddInput ==
    /\ Len(inputs) < MaxInputs
    /\ \E c \in UserCells : inputs' = Append(inputs, c)
    /\ call' = NoCall
    /\ UNCHANGED <<outputs, cellDeps, udtHandlers, envVars, otherVars, ncalls, feeVars, legacyVars, headerVars>>

\* tx.addOutput(output, data)
AddOutput ==
    /\ Len(outputs) < MaxOutputs
    /\ \E o \in UserOutputs : outputs' = Append(outputs, o)
    /\ call' = NoCall
    /\ UNCHANGED <<inputs, cellDeps, udtHandlers, envVars, otherVars, ncalls, feeVars, legacyVars, headerVars>>

\* UdtA.completeUdt(signer, tx, opts)
CompleteUdt ==
    /\ ncalls < MaxCalls
    /\ \E opts \in Options :
         LET r == completeUdt(UdtA, Tx(inputs, outputs, cellDeps, udtHandlers),
                              chain, permissive, opts)
         IN  /\ inputs' = r.tx.inputs
             /\ outputs' = r.tx.outputs
             /\ cellDeps' = r.tx.cellDeps
             /\ udtHandlers' = r.tx.udtHandlers
             /\ call' = [made |-> TRUE, opts |-> opts,
                         preInputs |-> inputs, preOutputs |-> outputs,
                         preCellDeps |-> cellDeps,
                         searched |-> r.searched, found |-> r.found,
                         pulled |-> r.pulled, res |-> r.res,
                         prev |-> IF call.made
                                  THEN [made |-> TRUE, opts |-> call.opts, kind |-> call.res.kind]
                                  ELSE [made |-> FALSE]]
    /\ ncalls' = ncalls + 1
    /\ UNCHANGED <<envVars, otherVars, feeVars, legacyVars, headerVars>>

Next == AddInput \/ AddOutput \/ CompleteUdt

Spec == Init /\ [][Next]_vars

-----------------------------------------------------------------------------
(* SmartTransaction.completeFee (transaction.ts 545-580) *)

\* the ceiling on the outputs of a NervosDAO transaction
DaoMaxOutputs == 64

\* the script client.getKnownScript(KnownScript.NervosDao) resolves to
Dao == "dao"

\* one round of the loop over udtHandlers.values(): the handler's outcome r
\* folded into the running counts; an error of a handler ends the loop and
\* leaves what was done
foldHandler(acc, r) ==
    IF r.res.kind # "ok"
    THEN [ok |-> FALSE, tx |-> r.tx, inAdded |-> acc.inAdded,
          addedChange |-> acc.addedChange]
    ELSE [ok |-> TRUE, tx |-> r.tx, inAdded |-> acc.inAdded + r.res.inAdded,
          addedChange |-> acc.addedChange \/ r.res.change]

RECURSIVE completeHandlers(_, _, _, _, _)
\* the loop over udtHandlers.values(): each handler's completeUdt in turn
completeHandlers(hs, acc, cells, perm, opts) ==
    IF hs = <<>> \/ ~acc.ok THEN acc
    ELSE completeHandlers(Tail(hs),
                          foldHandler(acc, completeUdt(Head(hs), acc.tx, cells, perm, opts)),
                          cells, perm, opts)

\* a capacity cell of the signer and the capacity change output
CapacityCell == Cell("c1", "lockS1", NoType, 9, <<>>, TRUE)
CapacityChange == Output(RecommendedLock, NoType, 1, <<>>)

\* what ccc.Transaction.completeFee may do: fail, or add capacity inputs and
\* possibly one change output
BaseOutcomes ==
    [ok : {TRUE}, inputs : {0, 1}, change : BOOLEAN]
        \cup {[ok |-> FALSE, inputs |-> 0, change |-> FALSE]}

\* mutant: the native completion spends a UDT cell of the signer
baseCompleteFeeUdt(tx, outcome) ==
    [tx EXCEPT !.inputs = IF outcome.inputs = 1 THEN Append(tx.inputs, ChainCells[1])
                          ELSE tx.inputs,
               !.outputs = IF outcome.change THEN Append(tx.outputs, CapacityChange)
                           ELSE tx.outputs]

\* super.completeFee(...args) with the given outcome
baseCompleteFee(tx, outcome) ==
    [tx EXCEPT !.inputs = IF outcome.inputs = 1 THEN Append(tx.inputs, CapacityCell)
                          ELSE tx.inputs,
               !.outputs = IF outcome.change THEN Append(tx.outputs, CapacityChange)
                           ELSE tx.outputs]

\* isDaoTx: some resolved input or some output carries the NervosDAO type
isDaoTx(ins, outs) ==
    \/ \E i \in 1..Len(ins) : ins[i].known /\ ins[i].type = Dao
    \/ \E i \in 1..Len(outs) : outs[i].type = Dao

\* mutant: the ceiling is taken one too low
tooManyDaoOutputsGe(ins, outs) == isDaoTx(ins, outs) /\ Len(outs) >= DaoMaxOutputs

\* the post-check of completeFee that throws
tooManyDaoOutputs(ins, outs) == isDaoTx(ins, outs) /\ Len(outs) > DaoMaxOutputs

\* the end of completeFee: the NervosDAO check on the transaction t that the
\* base fee completion left, then the summed counts
checkDaoOutputs(t, inAdded, addedChange) ==
    IF tooManyDaoOutputs(t.inputs, t.outputs)
    THEN [tx |-> t, kind |-> "tooManyOutputs", reachedCheck |-> TRUE,
          inAdded |-> 0, addedChange |-> FALSE]
    ELSE [tx |-> t, kind |-> "ok", reachedCheck |-> TRUE,
          inAdded |-> inAdded, addedChange |-> addedChange]

\* completeFee after the handlers' loop ended as u
completeFeeAfterUdt(u, outcome) ==
    IF ~u.ok
    THEN [tx |-> u.tx, kind |-> "udtError", reachedCheck |-> FALSE,
          inAdded |-> 0, addedChange |-> FALSE]
    ELSE IF ~outcome.ok
    THEN [tx |-> u.tx, kind |-> "baseError", reachedCheck |-> FALSE,
          inAdded |-> 0, addedChange |-> FALSE]
    ELSE checkDaoOutputs(baseCompleteFee(u.tx, outcome),
                         u.inAdded + outcome.inputs,
                         u.addedChange \/ outcome.change)

\* completeFee(signer, ..., options): the transaction it leaves and its outcome:
\* kind "udtError" (a handler threw), "baseError" (super.completeFee threw),
\* "tooManyOutputs" (the NervosDAO check threw) or "ok" ([inAdded, addedChange])
completeFee(tx, cells, perm, opts, outcome) ==
    completeFeeAfterUdt(
        completeHandlers(tx.udtHandlers,
                         [ok |-> TRUE, tx |-> tx, inAdded |-> 0, addedChange |-> FALSE],
                         cells, perm, opts),
        outcome)

-----------------------------------------------------------------------------
(* Specification SpecFee: transactions near the NervosDAO ceiling and completeFee *)

MaxFeeInputs == 1
MaxFeeExtraOutputs == 1
MaxFeeCalls == 1

\* an output without type script, as a caller adds many of
Filler == Output("lockX", NoType, 1, <<>>)

FeeCells ==
    { Cell("d0", "lockS1", Dao, 5, EncLE(0, 8), TRUE),
      Cell("u1", "lockS1", "udtA", 2, Uint128LEEncode(3), TRUE),
      Cell("c0", "lockS1", NoType, 3, <<>>, TRUE) }

FeeOutputs ==
    { Output("lockS1", Dao, 5, EncLE(0, 8)),
      Output("lockX", "udtA", 2, Uint128LEEncode(2)),
      Filler }

\* SmartTransaction.from(txLike) for a transaction of n plain outputs
InitFee ==
    /\ inputs = <<>>
    /\ \E n \in (DaoMaxOutputs - 2)..(DaoMaxOutputs + 1) : outputs = [i \in 1..n |-> Filler]
    /\ cellDeps = <<>>
    /\ udtHandlers = <<>>
    /\ chain \in {<<>>, SubSeq(ChainCells, 1, 1)}
    /\ permissive = FALSE
    /\ call = NoCall
    /\ ncalls = 0
    /\ fee = NoCall
    /\ legacy = LegacyIdle
    /\ headers = EmptyCache
    /\ headerDeps = <<>>
    /\ hop = NoCall
    /\ OthersIdle

FeeIdle == ncalls = 0

\* tx.addInput(cell)
FeeAddInput ==
    /\ FeeIdle
    /\ Len(inputs) < MaxFeeInputs
    /\ \E c \in FeeCells : inputs' = Append(inputs, c)
    /\ UNCHANGED <<outputs, cellDeps, udtHandlers, envVars, otherVars, udtVars, feeVars,
                   legacyVars, headerVars>>

\* tx.addOutput(output, data)
FeeAddOutput ==
    /\ FeeIdle
    /\ Len(outputs) < DaoMaxOutputs + 1 + MaxFeeExtraOutputs
    /\ Len(SelectSeq(outputs, LAMBDA o : o # Filler)) < MaxFeeExtraOutputs
    /\ \E o \in FeeOutputs : outputs' = Append(outputs, o)
    /\ UNCHANGED <<inputs, cellDeps, udtHandlers, envVars, otherVars, udtVars, feeVars,
                   legacyVars, headerVars>>

\* tx.addUdtHandlers(UdtA)
FeeAddUdtHandler ==
    /\ FeeIdle
    /\ udtHandlers = <<>>
    /\ LET t == addUdtHandler(Tx(inputs, outputs, cellDeps, udtHandlers), UdtA)
       IN  /\ udtHandlers' = t.udtHandlers
           /\ cellDeps' = t.cellDeps
    /\ UNCHANGED <<inputs, outputs, envVars, otherVars, udtVars, feeVars, legacyVars, headerVars>>

\* the state a completeFee call with result r leaves
FeeResult(r) ==
    /\ inputs' = r.tx.inputs
    /\ outputs' = r.tx.outputs
    /\ cellDeps' = r.tx.cellDeps
    /\ udtHandlers' = r.tx.udtHandlers
    /\ fee' = [made |-> TRUE, kind |-> r.kind, reachedCheck |-> r.reachedCheck,
               inAdded |-> r.inAdded, addedChange |-> r.addedChange,
               preOutputs |-> Len(outputs), preInputs |-> Len(inputs)]

\* tx.completeFee(signer, change, feeRate, filter, opts)
CompleteFee ==
    /\ ncalls < MaxFeeCalls
    /\ \E opts \in Options, outcome \in BaseOutcomes :
         FeeResult(completeFee(Tx(inputs, outputs, cellDeps, udtHandlers),
                               chain, permissive, opts, outcome))
    /\ ncalls' = ncalls + 1
    /\ UNCHANGED <<envVars, otherVars, call, legacyVars, headerVars>>

NextFee == FeeAddInput \/ FeeAddOutput \/ FeeAddUdtHandler \/ CompleteFee

SpecFee == InitFee /\ [][NextFee]_vars

-----------------------------------------------------------------------------
(* The two-pass SmartTransaction.completeFee (transaction.ts 97-117), one    *)
(* step per await. Specification SpecLegacy.                                 *)

MaxHandlers == 2
MaxAdded == 2

\* a handler of the two-pass version: a script with its cell deps, and
\* possibly its own view of the balances
LegacyA == [script |-> "udtA", cellDeps |-> <<"depA">>]
LegacyB == [script |-> "udtB", cellDeps |-> <<"depB">>]
LegacyHandlers == {LegacyA, LegacyB}

BalanceError == "UDT Handlers did not produce a balanced Transaction"

\* what ccc's tx.completeInputsByUdt(signer, udt) may do: throw, or append
\* some cells of that UDT to the inputs and return their number
InputsByUdtOutcomes ==
    [ok : {TRUE}, addedCount : 0..MaxAdded] \cup {[ok |-> FALSE, addedCount |-> 0]}

\* the inputs after completeInputsByUdt appended n cells typed udt
completeInputsByUdt(ins, udt, n) ==
    ins \o [i \in 1..n |-> Cell("found", "lockS1", udt, 2, Uint128LEEncode(1), TRUE)]

\* mutant: one added input is let through
Pass2FailsAboveOne(addedCount) == addedCount > 1

\* the test of the second loop that throws
Pass2Fails(addedCount) == addedCount > 0

\* the position after round i of a loop over the handlers
AfterRound(i, again, after) == IF i = Len(udtHandlers) THEN after ELSE again

InitLegacy ==
    /\ inputs = <<>>
    /\ outputs = <<>>
    /\ cellDeps = <<>>
    /\ udtHandlers = <<>>
    /\ chain = <<>>
    /\ permissive = FALSE
    /\ call = NoCall
    /\ ncalls = 0
    /\ fee = NoCall
    /\ legacy = LegacyIdle
    /\ headers = EmptyCache
    /\ headerDeps = <<>>
    /\ hop = NoCall
    /\ OthersIdle

\* tx.addUdtHandlers(h)
LegacyAddUdtHandler ==
    /\ legacy.pc = "idle"
    /\ Len(udtHandlers) < MaxHandlers
    /\ \E h \in LegacyHandlers :
         /\ \A i \in 1..Len(udtHandlers) : udtHandlers[i] # h
         /\ LET t == addUdtHandler(Tx(inputs, outputs, cellDeps, udtHandlers), h)
            IN  /\ udtHandlers' = t.udtHandlers
                /\ cellDeps' = t.cellDeps
    /\ UNCHANGED <<inputs, outputs, envVars, otherVars, udtVars, feeVars, legacyVars, headerVars>>

\* tx.completeFee(signer, ...) is entered
LegacyStart ==
    /\ legacy.pc = "idle"
    /\ legacy' = [legacy EXCEPT !.pc = AfterRound(0, "pass1", "native")]
    /\ UNCHANGED <<txVars, envVars, otherVars, udtVars, feeVars, headerVars>>

\* one round of the first loop: await this.completeInputsByUdt(signer, udt)
LegacyPass1 ==
    /\ legacy.pc = "pass1"
    /\ LET i == Len(legacy.pass1) + 1
       IN  \E o \in InputsByUdtOutcomes :
             IF ~o.ok
             THEN /\ legacy' = [legacy EXCEPT !.pc = "failed", !.error = "insufficient"]
                  /\ UNCHANGED inputs
             ELSE /\ inputs' = completeInputsByUdt(inputs, udtHandlers[i].script, o.addedCount)
                  /\ legacy' = [legacy EXCEPT !.pass1 = Append(@, o.addedCount),
                                              !.pc = AfterRound(i, "pass1", "pass2")]
    /\ UNCHANGED <<outputs, cellDeps, udtHandlers, envVars, otherVars, udtVars, feeVars, headerVars>>

\* one round of the second loop: the completion again, and the throw if it
\* added inputs
LegacyPass2 ==
    /\ legacy.pc = "pass2"
    /\ LET i == Len(legacy.pass2) + 1
       IN  \E o \in InputsByUdtOutcomes :
             IF ~o.ok
             THEN /\ legacy' = [legacy EXCEPT !.pc = "failed", !.error = "insufficient"]
                  /\ UNCHANGED inputs
             ELSE /\ inputs' = completeInputsByUdt(inputs, udtHandlers[i].script, o.addedCount)
                  /\ legacy' =
                       IF Pass2Fails(o.addedCount)
                       THEN [legacy EXCEPT !.pass2 = Append(@, o.addedCount),
                                           !.pc = "failed", !.error = BalanceError]
                       ELSE [legacy EXCEPT !.pass2 = Append(@, o.addedCount),
                                           !.pc = AfterRound(i, "pass2", "native")]
    /\ UNCHANGED <<outputs, cellDeps, udtHandlers, envVars, otherVars, udtVars, feeVars, headerVars>>

\* return super.completeFee(...args): the base fee completion is started
LegacyNative ==
    /\ legacy.pc = "native"
    /\ legacy' = [legacy EXCEPT !.nativeStarted = TRUE, !.pc = "done"]
    /\ UNCHANGED <<txVars, envVars, otherVars, udtVars, feeVars, headerVars>>

NextLegacy ==
    LegacyAddUdtHandler \/ LegacyStart \/ LegacyPass1 \/ LegacyPass2 \/ LegacyNative

SpecLegacy == InitLegacy /\ [][NextLegacy]_vars

-----------------------------------------------------------------------------
(* The header cache of SmartTransaction: encodeHeaderKey, addHeaders,        *)
(* getHeader, and getInputsCapacity (transaction.ts 634-833)                 *)

\* block headers: hash (hex digits), number, and the accumulated rate dao.ar.
\* H2x claims the number of H2 under another hash; the chain does not hold it.
H1 == [hash |-> <<1, 10>>, number |-> 1, ar |-> 10]
H2 == [hash |-> <<2, 11>>, number |-> 2, ar |-> 12]
H2x == [hash |-> <<2, 12>>, number |-> 2, ar |-> 11]
\* another header object with the hash and number of H1
H1b == [hash |-> <<1, 10>>, number |-> 1, ar |-> 9]
ChainHeaders == {H1, H2}

\* transaction hashes: T1 is in block H1, T2 in block H2, T9 is unknown
T1 == <<13, 1>>
T2 == <<13, 2>>
T9 == <<13, 9>>
NoTxHash == <<>>

RECURSIVE HexDigits(_)
\* v.toString(16) of a bigint, as its digits
HexDigits(n) == IF n < 16 THEN <<n>> ELSE Append(HexDigits(n \div 16), n % 16)

\* hexFrom: a hex string as it is, a bigint as 0x followed by its digits
hexFrom(type, value) == IF type = "number" THEN HexDigits(value) ELSE value

HeaderKey(type, value) == [type |-> type, value |-> value]

\* encodeHeaderKey: hexFrom(value) + type
encodeHeaderKey(k) == <<hexFrom(k.type, k.value), k.type>>

\* this.headers.set(key, header)
Put(m, k, v) == [x \in DOMAIN m \cup {k} |-> IF x = k THEN v ELSE m[x]]

\* the keys addHeaders files a header under: hash, number, and txHash if given
headerKeys(th) ==
    <<encodeHeaderKey(HeaderKey("hash", th.header.hash)),
      encodeHeaderKey(HeaderKey("number", th.header.number))>>
    \o (IF th.txHash # NoTxHash
        THEN <<encodeHeaderKey(HeaderKey("txHash", th.txHash))>> ELSE <<>>)

\* mutant: any cached header passes for the one being added
sameHashAlways(hash, h) == TRUE

\* hash == h.hash
sameHash(hash, h) == hash = h.hash

RECURSIVE addByKeys(_, _, _, _)
\* the loop over the keys: set if absent, keep the old header if it has the
\* same hash, throw otherwise (what was set before the throw stays)
addByKeys(m, keys, header, hash) ==
    IF keys = <<>> THEN [ok |-> TRUE, headers |-> m]
    ELSE IF Head(keys) \notin DOMAIN m
    THEN addByKeys(Put(m, Head(keys), header), Tail(keys), header, hash)
    ELSE IF sameHash(hash, m[Head(keys)])
    THEN addByKeys(m, Tail(keys), m[Head(keys)], hash)
    ELSE [ok |-> FALSE, headers |-> m]

ConflictError == "Found two hashes for the same header"

\* mutant: the hash is pushed whether or not it is a header dep already
pushAlways(deps, hash) == Append(deps, hash)

\* if (!this.headerDeps.some((h) => h === hash)) this.headerDeps.push(hash)
pushIfAbsent(deps, hash) ==
    IF \E i \in 1..Len(deps) : deps[i] = hash THEN deps ELSE Append(deps, hash)

\* the state after the keys of one header were handled as r
addedHeader(st, r, hash) ==
    IF ~r.ok
    THEN [st EXCEPT !.ok = FALSE, !.error = ConflictError, !.headers = r.headers]
    ELSE [st EXCEPT !.headers = r.headers,
                    !.headerDeps = pushIfAbsent(@, hash)]

\* the body of addHeaders for one TransactionHeader
addHeader(st, th) ==
    addedHeader(st, addByKeys(st.headers, headerKeys(th), th.header, th.header.hash),
                th.header.hash)

RECURSIVE addHeaders(_, _)
\* addHeaders(...headers): one header after the other, until one throws
addHeaders(st, ths) ==
    IF ths = <<>> \/ ~st.ok THEN st
    ELSE addHeaders(addHeader(st, Head(ths)), Tail(ths))

\* the header cache and the header deps of a transaction, with no error
HeaderState(m, deps) == [ok |-> TRUE, error |-> "none", headers |-> m, headerDeps |-> deps]

\* what the client answers: getHeaderByHash, getHeaderByNumber,
\* getTransactionWithHeader(...)?.header; the empty set stands for undefined
ClientHeader(k) ==
    IF k.type = "hash" THEN {h \in ChainHeaders : h.hash = k.value}
    ELSE IF k.type = "number" THEN {h \in ChainHeaders : h.number = k.value}
    ELSE IF k.value = T1 THEN {H1}
    ELSE IF k.value = T2 THEN {H2}
    ELSE {}

\* mutant: a header dep appended by the lookup is accepted
depsChangedNever(n, deps) == FALSE

\* headerDepsLength !== this.headerDeps.length
depsChanged(n, deps) == n # Len(deps)

\* mutant: the fetched header is returned whatever addHeaders did to the deps
afterFetchNoCheck(st, n, header) == [st |-> st, header |-> header]

\* getHeader after a cache miss and a fetch: st is the state addHeaders left
afterFetch(st, n, header) ==
    IF ~st.ok THEN [st |-> st, header |-> header]
    ELSE IF depsChanged(n, st.headerDeps)
    THEN [st |-> [st EXCEPT !.ok = FALSE, !.error = "Header was not present in HeaderDeps"],
          header |-> header]
    ELSE [st |-> st, header |-> header]

\* mutant: the cached header is returned without a look at the header deps
cacheHitNoCheck(st, header) == [st |-> st, header |-> header]

\* getHeader with the cached header found under the key
cacheHit(st, header) ==
    IF \E i \in 1..Len(st.headerDeps) : st.headerDeps[i] = header.hash
    THEN [st |-> st, header |-> header]
    ELSE [st |-> [st EXCEPT !.ok = FALSE, !.error = "Header not found in HeaderDeps"],
          header |-> header]

\* getHeader with the answer of the client after a cache miss
cacheMiss(st, k, fetched) ==
    IF fetched = {}
    THEN [st |-> [st EXCEPT !.ok = FALSE, !.error = "Header not found"], header |-> H1]
    ELSE afterFetch(addHeaders(st, << [header |-> CHOOSE h \in fetched : TRUE,
                                       txHash |-> IF k.type = "txHash" THEN k.value
                                                  ELSE NoTxHash] >>),
                    Len(st.headerDeps), CHOOSE h \in fetched : TRUE)

\* SmartTransaction.getHeader(client, headerKey): the state it leaves (ok and
\* error tell whether and how it threw) and the header it returns
getHeader(st, k) ==
    IF encodeHeaderKey(k) \in DOMAIN st.headers
    THEN cacheHit(st, st.headers[encodeHeaderKey(k)])
    ELSE cacheMiss(st, k, ClientHeader(k))

\* ccc.calcDaoProfit(profitableSize, depositHeader, withdrawHeader)
calcDaoProfit(free, depositHeader, withdrawHeader) ==
    (free * withdrawHeader.ar) \div depositHeader.ar - free

\* outputData "0x0000000000000000" of a fresh deposit
ZeroSentinel == EncLE(0, 8)

\* an input with its extra infos: the cell's type, capacity, occupied size
\* and data, and the hash of the transaction that created it
DaoCell(id, type, capacity, occupied, data, txHash, known) ==
    [id |-> id, type |-> type, capacity |-> capacity, occupied |-> occupied,
     data |-> data, txHash |-> txHash, known |-> known]

HeaderCells ==
    { DaoCell("w1", Dao, 20, 2, EncLE(1, 8), T2, TRUE),
      DaoCell("w9", Dao, 20, 2, EncLE(1, 8), T9, TRUE),
      DaoCell("d0", Dao, 10, 2, ZeroSentinel, T1, TRUE),
      DaoCell("p0", NoType, 5, 1, <<>>, T1, TRUE),
      DaoCell("x0", NoType, 5, 1, <<>>, T9, FALSE) }

\* mutant: a fresh deposit is taken for a withdrawal request
skipsProfitNonDao(c) == c.type # Dao

\* outputData === "0x0000000000000000" || !cellOutput.type?.eq(dao)
skipsProfit(c) == c.data = ZeroSentinel \/ c.type # Dao

\* the end of the reducer for a withdrawal request: the deposit header d was
\* looked up after the withdrawal header wh
withDeposit(acc, c, wh, d) ==
    [st |-> d.st,
     total |-> IF d.st.ok
               THEN acc.total + c.capacity
                    + calcDaoProfit(c.capacity - c.occupied, d.header, wh)
               ELSE acc.total,
     lookups |-> acc.lookups \o <<HeaderKey("txHash", c.txHash),
                                  HeaderKey("number", DecLE(c.data))>>]

\* the reducer for a withdrawal request after the lookup w by txHash
withWithdraw(acc, c, w) ==
    IF ~w.st.ok
    THEN [st |-> w.st, total |-> acc.total,
          lookups |-> Append(acc.lookups, HeaderKey("txHash", c.txHash))]
    ELSE withDeposit(acc, c, w.header,
                     getHeader(w.st, HeaderKey("number", DecLE(c.data))))

\* the reducer of getInputsCapacity for one input
addInputCapacity(acc, c) ==
    IF ~c.known
    THEN [acc EXCEPT !.st = [@ EXCEPT !.ok = FALSE, !.error = "Unable to complete input"]]
    ELSE IF skipsProfit(c)
    THEN [acc EXCEPT !.total = @ + c.capacity]
    ELSE withWithdraw(acc, c, getHeader(acc.st, HeaderKey("txHash", c.txHash)))

RECURSIVE reduceInputs(_, _)
\* ccc.reduceAsync over this.inputs, as far as no reducer throws
reduceInputs(acc, ins) ==
    IF ins = <<>> \/ ~acc.st.ok THEN acc
    ELSE reduceInputs(addInputCapacity(acc, Head(ins)), Tail(ins))

\* getInputsCapacity(client)
getInputsCapacity(st, ins) ==
    reduceInputs([st |-> st, total |-> 0, lookups |-> <<>>], ins)

RECURSIVE addTrace(_, _)
\* for each header addHeaders handles: the cache it met and whether it was added
addTrace(st, ths) ==
    IF ths = <<>> \/ ~st.ok THEN <<>>
    ELSE <<[th |-> Head(ths), before |-> st.headers, ok |-> addHeader(st, Head(ths)).ok]>>
         \o addTrace(addHeader(st, Head(ths)), Tail(ths))

-----------------------------------------------------------------------------
(* Specification SpecHeaders: a transaction, its header deps and the cache *)

MaxHeaderInputs == 2
MaxHeaderDeps == 2
MaxHeaderOps == 2

\* the TransactionHeader values a caller passes to addHeaders
TransactionHeaders ==
    { [header |-> H1, txHash |-> NoTxHash],
      [header |-> H2, txHash |-> T2],
      [header |-> H2x, txHash |-> NoTxHash],
      [header |-> H1, txHash |-> T2],
      [header |-> H1b, txHash |-> T1] }

\* the keys a caller passes to getHeader
HeaderKeys ==
    { HeaderKey("hash", H1.hash), HeaderKey("hash", H2x.hash),
      HeaderKey("number", 1), HeaderKey("number", 3), HeaderKey("txHash", T2) }

InitHeaders ==
    /\ inputs = <<>>
    /\ outputs = <<>>
    /\ cellDeps = <<>>
    /\ udtHandlers = <<>>
    /\ chain = <<>>
    /\ permissive = FALSE
    /\ call = NoCall
    /\ ncalls = 0
    /\ fee = NoCall
    /\ legacy = LegacyIdle
    /\ headers = EmptyCache
    /\ headerDeps = <<>>
    /\ hop = NoCall
    /\ OthersIdle

\* tx.addInput(cell)
HAddInput ==
    /\ ncalls = 0
    /\ Len(inputs) < MaxHeaderInputs
    /\ \E c \in HeaderCells : inputs' = Append(inputs, c)
    /\ UNCHANGED <<outputs, cellDeps, udtHandlers, envVars, otherVars, udtVars, feeVars,
                   legacyVars, headerVars>>

\* a header dep the transaction-like value carries, or tx.headerDeps.push(hash)
HAddHeaderDep ==
    /\ ncalls = 0
    /\ Len(headerDeps) < MaxHeaderDeps
    /\ \E h \in ChainHeaders :
         /\ \A i \in 1..Len(headerDeps) : headerDeps[i] # h.hash
         /\ headerDeps' = Append(headerDeps, h.hash)
    /\ UNCHANGED <<txVars, envVars, otherVars, udtVars, feeVars, legacyVars, headers, hop>>

\* the state and the record a header operation leaves; ret is what the call
\* returns when it does not throw
HeaderResult(op, arg, st, ret, lookups, steps) ==
    /\ headers' = st.headers
    /\ headerDeps' = st.headerDeps
    /\ hop' = [made |-> TRUE, op |-> op, arg |-> arg,
               preHeaders |-> headers, preDeps |-> headerDeps,
               ok |-> st.ok, error |-> st.error,
               ret |-> ret, lookups |-> lookups, steps |-> steps]
    /\ ncalls' = ncalls + 1
    /\ UNCHANGED <<txVars, envVars, otherVars, call, feeVars, legacyVars>>

\* the argument lists of addHeaders: one header, or two different ones (H1b
\* is passed alone)
HeaderLists ==
    {<<a>> : a \in TransactionHeaders}
        \cup {<<p[1], p[2]>> : p \in {q \in TransactionHeaders \X TransactionHeaders :
                                        /\ q[1] # q[2]
                                        /\ q[1].header # H1b /\ q[2].header # H1b}}

\* tx.addHeaders(...ths)
HAddHeaders ==
    /\ ncalls < MaxHeaderOps
    /\ \E ths \in HeaderLists :
         HeaderResult("addHeaders", ths,
                      addHeaders(HeaderState(headers, headerDeps), ths),
                      0, <<>>,
                      addTrace(HeaderState(headers, headerDeps), ths))

\* the result record of a getHeader call for key k that ended as r
GetHeaderResult(k, r) == HeaderResult("getHeader", k, r.st, r.header, <<k>>, <<>>)

\* tx.getHeader(client, key)
HGetHeader ==
    /\ ncalls < MaxHeaderOps
    /\ \E k \in HeaderKeys :
         GetHeaderResult(k, getHeader(HeaderState(headers, headerDeps), k))

\* the result record of a getInputsCapacity call that ended as r
CapacityResult(r) == HeaderResult("getInputsCapacity", inputs, r.st, r.total, r.lookups, <<>>)

\* tx.getInputsCapacity(client)
HGetInputsCapacity ==
    /\ ncalls < MaxHeaderOps
    /\ CapacityResult(getInputsCapacity(HeaderState(headers, headerDeps), inputs))

NextHeaders ==
    HAddInput \/ HAddHeaderDep \/ HAddHeaders \/ HGetHeader \/ HGetInputsCapacity

SpecHeaders == InitHeaders /\ [][NextHeaders]_vars

-----------------------------------------------------------------------------
(* Transactions as objects: default, clone, copy, RestrictedTransaction      *)
(* (transaction.ts 845-966, part_004 528-660, part_005 458-519)              *)

\* objs.txs are the transaction objects; a transaction refers, by index, to
\* the object holding its arrays (objs.bodies: inputs, outputs, cellDeps,
\* headerDeps), to its udtHandlers Map (objs.handlerMaps) and to its headers
\* Map (objs.caches). Two transactions with the same index share the object.

Body(ins, outs, deps, hdeps) ==
    [inputs |-> ins, outputs |-> outs, cellDeps |-> deps, headerDeps |-> hdeps]

TxObject(body, handlers, cache, restricted, parent) ==
    [body |-> body, udtHandlers |-> handlers, headers |-> cache,
     restricted |-> restricted, parent |-> parent]

\* a second handler object for the script of UdtA, and handlers of other scripts
UdtA2 == [UdtA EXCEPT !.cellDeps = <<"depA2">>, !.name = "Token A2"]
UdtAPrime == [UdtA EXCEPT !.script = "udtA'"]
UdtB == [script |-> "udtB", cellDeps |-> <<"depB">>, name |-> "Token B",
         symbol |-> "BBB", decimals |-> 6]
UdtC == [script |-> "udtC", cellDeps |-> <<"depA">>, name |-> "Token C",
         symbol |-> "CCC", decimals |-> 6]

\* mutant: the handler is appended whatever the map holds
mapSetAppend(hs, h) == Append(hs, h)

\* Map.set(encodeUdtKey(h.script), h) on a udtHandlers map: the entry of the
\* key is replaced in place, a new key is appended
mapSet(hs, h) ==
    IF \E i \in 1..Len(hs) : encodeUdtKey(hs[i].script) = encodeUdtKey(h.script)
    THEN [i \in 1..Len(hs) |->
            IF encodeUdtKey(hs[i].script) = encodeUdtKey(h.script) THEN h ELSE hs[i]]
    ELSE Append(hs, h)

\* SmartTransaction.default(): a transaction with new arrays and new Maps
defaultTx(o) ==
    [txs |-> Append(o.txs, TxObject(Len(o.bodies) + 1, Len(o.handlerMaps) + 1,
                                    Len(o.caches) + 1, FALSE, 0)),
     bodies |-> Append(o.bodies, Body(<<>>, <<>>, <<>>, <<>>)),
     handlerMaps |-> Append(o.handlerMaps, <<>>),
     caches |-> Append(o.caches, EmptyCache)]

\* mutant: the clone takes the arrays of the original
cloneShallow(o, i, restricted) ==
    [o EXCEPT !.txs = Append(@, TxObject(o.txs[i].body, o.txs[i].udtHandlers,
                                         o.txs[i].headers, restricted, i))]

\* clone(): the arrays are copied (super.clone()), the two Maps are taken over
cloneTx(o, i, restricted) ==
    [o EXCEPT !.txs = Append(@, TxObject(Len(o.bodies) + 1, o.txs[i].udtHandlers,
                                         o.txs[i].headers, restricted, i)),
              !.bodies = Append(@, o.bodies[o.txs[i].body])]

\* new RestrictedTransaction(tx) without cloning: the arrays and the Maps of tx
restrictTx(o, i) ==
    [o EXCEPT !.txs = Append(@, TxObject(o.txs[i].body, o.txs[i].udtHandlers,
                                         o.txs[i].headers, TRUE, 0))]

RECURSIVE mergeHandlers(_, _)
\* for (const [k, h] of tx.udtHandlers.entries()) this.udtHandlers.set(k, h)
mergeHandlers(dst, src) ==
    IF src = <<>> THEN dst ELSE mergeHandlers(mapSet(dst, Head(src)), Tail(src))

\* mutant: an entry of the destination is kept
mergeHeadersKeepOld(dst, src) ==
    [k \in DOMAIN dst \cup DOMAIN src |-> IF k \in DOMAIN dst THEN dst[k] ELSE src[k]]

\* for (const [k, h] of tx.headers.entries()) this.headers.set(k, h)
mergeHeaders(dst, src) ==
    [k \in DOMAIN dst \cup DOMAIN src |-> IF k \in DOMAIN src THEN src[k] ELSE dst[k]]

\* d.copy(s) for a SmartTransaction s: the arrays of s are taken over, and
\* the entries of the Maps of s are set in the Maps of d if these are others
copyTx(o, d, s) ==
    LET dh == o.txs[d].udtHandlers
        sh == o.txs[s].udtHandlers
        dc == o.txs[d].headers
        sc == o.txs[s].headers
    IN  [o EXCEPT !.txs[d].body = o.txs[s].body,
                  !.handlerMaps[dh] = IF dh # sh THEN mergeHandlers(@, o.handlerMaps[sh])
                                      ELSE @,
                  !.caches[dc] = IF dc # sc THEN mergeHeaders(@, o.caches[sc]) ELSE @]

\* t.addUdtHandlers(h)
addUdtHandlersTo(o, t, h) ==
    [o EXCEPT !.handlerMaps[o.txs[t].udtHandlers] = mapSet(@, h),
              !.bodies[o.txs[t].body].cellDeps = AddUnique(@, h.cellDeps)]

\* the objects after t.addHeaders(th) left the cache and the header deps as st
withHeaderState(o, t, st) ==
    [o EXCEPT !.caches[o.txs[t].headers] = st.headers,
              !.bodies[o.txs[t].body].headerDeps = st.headerDeps]

\* t.addHeaders(th)
addHeadersTo(o, t, th) ==
    withHeaderState(o, t, addHeaders(HeaderState(o.caches[o.txs[t].headers],
                                                 o.bodies[o.txs[t].body].headerDeps),
                                     <<th>>))

-----------------------------------------------------------------------------
(* Specification SpecLineage: two default transactions, their clones and     *)
(* copies, and what is added through them                                    *)

MaxTxs == 4
MaxItems == 1
MaxLineageOps == 3
StackLimit == 3

LineageHandlers == {UdtA, UdtA2, UdtAPrime, UdtB, UdtC}
LineageHeaders == {[header |-> H2, txHash |-> T2], [header |-> H2x, txHash |-> NoTxHash]}
LineageCells == {Cell("u1", "lockS1", "udtA", 2, Uint128LEEncode(3), TRUE)}

StackError == "RangeError: Maximum call stack size exceeded"

InitLineage ==
    /\ inputs = <<>>
    /\ outputs = <<>>
    /\ cellDeps = <<>>
    /\ udtHandlers = <<>>
    /\ chain = <<>>
    /\ permissive = FALSE
    /\ call = NoCall
    /\ ncalls = 0
    /\ fee = NoCall
    /\ legacy = LegacyIdle
    /\ headers = EmptyCache
    /\ headerDeps = <<>>
    /\ hop = NoCall
    /\ objs = defaultTx(defaultTx(EmptyObjs))
    /\ lop = NoCall
    /\ ecur = NoCall
    /\ eop = NoCall
    /\ fop = NoCall
    /\ heap = <<>>
    /\ mop = NoCall
    /\ run = RunIdle
    /\ bg = NoCall
    /\ bsr = NoCall
    /\ pend = NoCall

Txs == 1..Len(objs.txs)

\* no call is in progress
Quiet == lop.made => lop.done

CanCall == Quiet /\ ncalls < MaxLineageOps

\* what the last call was, for the call that follows it
LastCall == IF lop.made THEN [made |-> TRUE, op |-> lop.op, tx |-> lop.tx, src |-> lop.src]
            ELSE [made |-> FALSE]

\* the objects and the record a finished call leaves: op on transaction t
\* with source transaction src and argument arg
LineageResult(op, t, src, arg, o, ok, error, ret) ==
    /\ objs' = o
    /\ lop' = [made |-> TRUE, done |-> TRUE, op |-> op, tx |-> t, src |-> src,
               arg |-> arg, pre |-> objs, ok |-> ok, error |-> error, ret |-> ret,
               depth |-> 0, prev |-> LastCall]
    /\ ncalls' = ncalls + 1
    /\ UNCHANGED <<txVars, envVars, call, feeVars, legacyVars, headerVars, epochVars, findVars, heapVars, runVars, utilVars>>

\* SmartTransaction.default()
LDefault ==
    /\ CanCall /\ Len(objs.txs) < MaxTxs
    /\ LineageResult("default", Len(objs.txs) + 1, 0, 0, defaultTx(objs), TRUE, "none", 0)

\* tx.clone() on a SmartTransaction
LClone ==
    /\ CanCall /\ Len(objs.txs) < MaxTxs
    /\ \E i \in Txs :
         /\ ~objs.txs[i].restricted
         /\ LineageResult("clone", Len(objs.txs) + 1, i, 0, cloneTx(objs, i, FALSE),
                          TRUE, "none", 0)

\* RestrictedTransaction.from(tx) / new RestrictedTransaction(tx)
LRestrict ==
    /\ CanCall /\ Len(objs.txs) < MaxTxs
    /\ \E i \in Txs :
         LineageResult("restrict", Len(objs.txs) + 1, i, 0, restrictTx(objs, i),
                       TRUE, "none", 0)

\* tx.clone() on a RestrictedTransaction (part_005): super.clone(), the
\* inputs array copied, and the result wrapped
LRestrictedClone ==
    /\ CanCall /\ Len(objs.txs) < MaxTxs
    /\ \E i \in Txs :
         /\ objs.txs[i].restricted
         /\ LineageResult("restrictedClone", Len(objs.txs) + 1, i, 0,
                          cloneTx(objs, i, TRUE), TRUE, "none", 0)

\* tx.clone() on a RestrictedTransaction (part_004) is entered:
\* new RestrictedTransaction(this, true) calls parametersOf(this, true)
LRestrictedCloneEnter ==
    /\ CanCall
    /\ \E i \in Txs :
         /\ objs.txs[i].restricted
         /\ lop' = [made |-> TRUE, done |-> FALSE, op |-> "restrictedClone", tx |-> 0,
                    src |-> i, arg |-> 0, pre |-> objs, ok |-> TRUE, error |-> "none",
                    ret |-> 0, depth |-> 1, prev |-> LastCall]
    /\ ncalls' = ncalls + 1
    /\ UNCHANGED <<txVars, envVars, call, feeVars, legacyVars, headerVars, objs, epochVars, findVars, heapVars, runVars, utilVars>>

\* parametersOf calls tx.clone(), which for a RestrictedTransaction is this
\* same method with the same receiver
LRestrictedCloneRecurse ==
    /\ lop.made /\ ~lop.done
    /\ lop.depth < StackLimit
    /\ lop' = [lop EXCEPT !.depth = @ + 1]
    /\ UNCHANGED <<txVars, envVars, udtVars, feeVars, legacyVars, headerVars, objs, epochVars, findVars, heapVars, runVars, utilVars>>

\* the call stack is exhausted
LRestrictedCloneOverflow ==
    /\ lop.made /\ ~lop.done
    /\ lop.depth = StackLimit
    /\ lop' = [lop EXCEPT !.done = TRUE, !.ok = FALSE, !.error = StackError, !.depth = 0]
    /\ UNCHANGED <<txVars, envVars, udtVars, feeVars, legacyVars, headerVars, objs, epochVars, findVars, heapVars, runVars, utilVars>>

\* d.copy(s)
LCopy ==
    /\ CanCall
    /\ \E d \in Txs, s2 \in Txs :
         LineageResult("copy", d, s2, 0, copyTx(objs, d, s2), TRUE, "none", 0)

\* completeInputs of a RestrictedTransaction: nothing is searched or added
restrictedCompleteInputs(init) == [addedCount |-> 0, accumulated |-> init]

\* t.completeInputs(from, filter, accumulator, init): the override for a
\* RestrictedTransaction; for a SmartTransaction ccc's method, which may add
\* cells it finds
LCompleteInputs ==
    /\ CanCall
    /\ \E t \in Txs, init \in {0, 5}, n \in 0..1 :
         IF objs.txs[t].restricted
         THEN LineageResult("completeInputs", t, 0, init, objs, TRUE, "none",
                            restrictedCompleteInputs(init))
         ELSE /\ Len(objs.bodies[objs.txs[t].body].inputs) + n <= MaxItems
              /\ LineageResult("completeInputs", t, 0, init,
                               [objs EXCEPT !.bodies[objs.txs[t].body].inputs =
                                   @ \o [i \in 1..n |-> CHOOSE c \in LineageCells : TRUE]],
                               TRUE, "none", [addedCount |-> n, accumulated |-> init + n])

\* t.addInput(cell)
LAddInput ==
    /\ CanCall
    /\ \E t \in Txs, c \in LineageCells :
         /\ Len(objs.bodies[objs.txs[t].body].inputs) < MaxItems
         /\ LineageResult("addInput", t, 0, c,
                          [objs EXCEPT !.bodies[objs.txs[t].body].inputs = Append(@, c)],
                          TRUE, "none", 0)

\* t.addOutput(output, data)
LAddOutput ==
    /\ CanCall
    /\ \E t \in Txs :
         /\ Len(objs.bodies[objs.txs[t].body].outputs) < MaxItems
         /\ LineageResult("addOutput", t, 0, Filler,
                          [objs EXCEPT !.bodies[objs.txs[t].body].outputs = Append(@, Filler)],
                          TRUE, "none", 0)

\* t.addUdtHandlers(h)
LAddUdtHandlers ==
    /\ CanCall
    /\ \E t \in Txs, h \in LineageHandlers :
         LineageResult("addUdtHandlers", t, 0, h, addUdtHandlersTo(objs, t, h),
                       TRUE, "none", 0)

\* the record of t.addHeaders(th) that left the cache and the deps as st
AddHeadersResult(t, th, st) ==
    LineageResult("addHeaders", t, 0, th, withHeaderState(objs, t, st), st.ok, st.error, 0)

\* t.addHeaders(th)
LAddHeaders ==
    /\ CanCall
    /\ \E t \in Txs, th \in LineageHeaders :
         AddHeadersResult(t, th,
                          addHeaders(HeaderState(objs.caches[objs.txs[t].headers],
                                                 objs.bodies[objs.txs[t].body].headerDeps),
                                     <<th>>))

NextLineage ==
    \/ LDefault \/ LClone \/ LRestrict \/ LRestrictedClone
    \/ LRestrictedCloneEnter \/ LRestrictedCloneRecurse \/ LRestrictedCloneOverflow
    \/ LCopy \/ LCompleteInputs \/ LAddInput \/ LAddOutput
    \/ LAddUdtHandlers \/ LAddHeaders

SpecLineage == InitLineage /\ [][NextLineage]_vars

-----------------------------------------------------------------------------
(* Epoch (epoch.ts): from, compare, add, sub, toUnix; gcd (utils.ts)         *)

\* bigint division, which truncates toward zero, and its remainder, which
\* takes the sign of the dividend
BigDiv(a, b) ==
    IF (a >= 0) = (b > 0) THEN (IF a >= 0 THEN a \div b ELSE (-a) \div (-b))
    ELSE IF a >= 0 THEN -(a \div (-b)) ELSE -((-a) \div b)

BigRem(a, b) == a - b * BigDiv(a, b)

RECURSIVE gcd(_, _)
\* gcd(res, v): while (v !== 0n) [res, v] = [v, res % v]
gcd(res, v) == IF v = 0 THEN res ELSE gcd(v, BigRem(res, v))

\* an EpochLike that is no Epoch instance: an object or an array of three
EpochLike(number, index, length) ==
    [number |-> number, index |-> index, length |-> length, isEpoch |-> FALSE]

\* new Epoch(number, index, length)
NewEpoch(number, index, length) ==
    [number |-> number, index |-> index, length |-> length, isEpoch |-> TRUE]

\* deStruct: the three fields of an array or an object
deStruct(like) == [number |-> like.number, index |-> like.index, length |-> like.length]

EpochOk(e) == [ok |-> TRUE, error |-> "none", e |-> e]
EpochError == [ok |-> FALSE, error |-> "Non positive Epoch length", e |-> NewEpoch(0, 0, 1)]

\* mutant: the remainder of the fraction is dropped
carryWhole(number, index, length) ==
    EpochOk(NewEpoch(number + BigDiv(index, length), 0, 1))

\* the end of Epoch.from: number += index / length; index %= length
carry(number, index, length) ==
    EpochOk(NewEpoch(number + BigDiv(index, length), BigRem(index, length), length))

\* mutant: the fraction is left as it came
reduceNot(number, index, length, g) == carry(number, index, length)

\* index /= g; length /= g
reduce(number, index, length, g) == carry(number, BigDiv(index, g), BigDiv(length, g))

\* mutant: a borrow of one unit whatever the index
borrowOne(number, index, length, n) ==
    reduce(number - 1, index + length, length, gcd(index + length, length))

\* number -= n; index += length * n
borrow(number, index, length, n) ==
    reduce(number - n, index + length * n, length, gcd(index + length * n, length))

\* mutant: only a negative length is refused, and the length 0 makes an
\* epoch without a fraction
fromFieldsNegative(d) ==
    IF d.length < 0 THEN EpochError
    ELSE IF d.length = 0 THEN carry(d.number, 0, 1)
    ELSE IF d.index < 0
    THEN borrow(d.number, d.index, d.length, BigDiv(-d.index + d.length - 1, d.length))
    ELSE reduce(d.number, d.index, d.length, gcd(d.index, d.length))

\* Epoch.from on the fields of something that is no Epoch instance
fromFields(d) ==
    IF d.length <= 0 THEN EpochError
    ELSE IF d.index < 0
    THEN borrow(d.number, d.index, d.length, BigDiv(-d.index + d.length - 1, d.length))
    ELSE reduce(d.number, d.index, d.length, gcd(d.index, d.length))

\* Epoch.from(epochLike)
EpochFrom(like) == IF like.isEpoch THEN EpochOk(like) ELSE fromFields(deStruct(like))

\* mutant: the fractions are compared without regard to the lengths
compareEpochsByIndex(a, b) ==
    IF a.number < b.number THEN -1
    ELSE IF a.number > b.number THEN 1
    ELSE IF a.index < b.index THEN -1
    ELSE IF a.index > b.index THEN 1
    ELSE 0

\* compare, after other = Epoch.from(other)
compareEpochs(a, b) ==
    IF a.number < b.number THEN -1
    ELSE IF a.number > b.number THEN 1
    ELSE IF a.index * b.length < b.index * a.length THEN -1
    ELSE IF a.index * b.length > b.index * a.length THEN 1
    ELSE 0

\* the result of an operation that returns a number, or its failure
NumberResult(r, n) == [ok |-> r.ok, error |-> r.error, e |-> n]

\* this.compare(other)
compare(this, other) ==
    NumberResult(EpochFrom(other), compareEpochs(this, EpochFrom(other).e))

\* mutant: the numerators are added whatever the lengths
addEpochsPlain(a, b) == EpochFrom(EpochLike(a.number + b.number, a.index + b.index, a.length))

\* add, after other = Epoch.from(other)
addEpochs(a, b) ==
    IF a.length # b.length
    THEN EpochFrom(EpochLike(a.number + b.number,
                             b.index * a.length + a.index * b.length,
                             a.length * b.length))
    ELSE EpochFrom(EpochLike(a.number + b.number, a.index + b.index, a.length))

\* add with the outcome r of Epoch.from(other)
addAfterFrom(this, r) == IF r.ok THEN addEpochs(this, r.e) ELSE r

\* this.add(other)
add(this, other) == addAfterFrom(this, EpochFrom(other))

\* this.sub(other): this.add([-number, -index, length])
sub(this, other) == add(this, EpochLike(-other.number, -other.index, other.length))

epochInMilliseconds == 14400000

\* mutant: the fraction of the difference is left out
unixOfWhole(timestamp, d) ==
    NumberResult(d, timestamp + epochInMilliseconds * d.e.number)

\* the sum toUnix returns for the difference d to the reference epoch
unixOf(timestamp, d) ==
    NumberResult(d, timestamp + epochInMilliseconds * d.e.number
                    + BigDiv(epochInMilliseconds * d.e.index, d.e.length))

\* this.toUnix(reference)
toUnix(this, reference) == unixOf(reference.timestamp, sub(this, reference.epoch))

\* the operations made on Epochs in one run
MaxEpochOps == 2

\* things that are no Epoch instance: fractions that are negative, improper
\* or not in lowest terms, and lengths that are not positive
SmallLikes ==
    {EpochLike(n, i, l) : n \in {0, 1}, i \in {-3, -1, 0, 1, 4}, l \in {1, 2, 3}}
        \cup {EpochLike(0, 1, 0), EpochLike(0, 0, 0), EpochLike(1, -1, -1)}

\* the two epochs the documentation of Epoch.from speaks of
ExampleLikes == {EpochLike(100, 1800, 1800), EpochLike(100, -5, 10)}

\* Epoch instances, which only Epoch.from makes
EpochInstances ==
    {EpochFrom(l).e : l \in {EpochLike(0, 0, 1), EpochLike(0, 1, 2), EpochLike(1, 4, 3),
                              EpochLike(0, -1, 3)}}

EpochOperands == SmallLikes \cup EpochInstances

\* block headers: their epoch and their timestamp
References ==
    {[epoch |-> EpochLike(0, 0, 1), timestamp |-> 1000],
     [epoch |-> EpochLike(1, 1, 3), timestamp |-> 0],
     [epoch |-> EpochLike(0, 4, 2), timestamp |-> 500],
     [epoch |-> EpochLike(0, 3, 7), timestamp |-> 0],
     [epoch |-> EpochLike(0, 0, 0), timestamp |-> 0]}

InitEpoch ==
    /\ inputs = <<>>
    /\ outputs = <<>>
    /\ cellDeps = <<>>
    /\ udtHandlers = <<>>
    /\ chain = <<>>
    /\ permissive = FALSE
    /\ call = NoCall
    /\ ncalls = 0
    /\ fee = NoCall
    /\ legacy = LegacyIdle
    /\ headers = EmptyCache
    /\ headerDeps = <<>>
    /\ hop = NoCall
    /\ objs = EmptyObjs
    /\ lop = NoCall
    /\ ecur = NoCall
    /\ eop = NoCall
    /\ fop = NoCall
    /\ heap = <<>>
    /\ mop = NoCall
    /\ run = RunIdle
    /\ bg = NoCall
    /\ bsr = NoCall
    /\ pend = NoCall

\* what the last operation was, for the operation that follows it
LastEpochOp ==
    IF eop.made
    THEN [made |-> TRUE, op |-> eop.op, this |-> eop.this, other |-> eop.other, ok |-> eop.ok]
    ELSE [made |-> FALSE]

\* the record an operation leaves: op on the instance this with argument
\* other, its outcome r and a second outcome aux: for compare, that of the
\* call the other way round; for a round trip, the epoch that was compared
EpochResult(op, this, other, r, aux) ==
    /\ eop' = [made |-> TRUE, op |-> op, this |-> this, other |-> other, ok |-> r.ok,
               error |-> r.error, res |-> r.e, aux |-> aux, prev |-> LastEpochOp]
    /\ ncalls' = ncalls + 1
    /\ UNCHANGED <<txVars, envVars, call, feeVars, legacyVars, headerVars, lineageVars,
                   findVars, heapVars, runVars, utilVars>>

\* the instance at hand after an operation that returns an Epoch
Kept(r) == IF r.ok THEN [made |-> TRUE, e |-> r.e] ELSE ecur

\* Epoch.from(epochLike)
EFrom ==
    /\ ncalls < MaxEpochOps
    /\ \E like \in EpochOperands \cup ExampleLikes :
         /\ EpochResult("from", like, like, EpochFrom(like), 0)
         /\ ecur' = Kept(EpochFrom(like))

\* epoch.add(other)
EAdd ==
    /\ ncalls < MaxEpochOps /\ ecur.made
    /\ \E other \in EpochOperands :
         /\ EpochResult("add", ecur.e, other, add(ecur.e, other), 0)
         /\ ecur' = Kept(add(ecur.e, other))

\* epoch.sub(other)
ESub ==
    /\ ncalls < MaxEpochOps /\ ecur.made
    /\ \E other \in EpochOperands :
         /\ EpochResult("sub", ecur.e, other, sub(ecur.e, other), 0)
         /\ ecur' = Kept(sub(ecur.e, other))

\* Epoch.from(other).compare(epoch), where other can be an Epoch
reverse(this, r) == IF r.ok THEN compare(r.e, this).e ELSE 0

\* epoch.compare(other), and the same two epochs compared the other way round
ECompare ==
    /\ ncalls < MaxEpochOps /\ ecur.made
    /\ \E other \in EpochOperands :
         EpochResult("compare", ecur.e, other, compare(ecur.e, other),
                     reverse(ecur.e, EpochFrom(other)))
    /\ UNCHANGED ecur

\* epoch.toUnix(reference)
EToUnix ==
    /\ ncalls < MaxEpochOps /\ ecur.made
    /\ \E reference \in References :
         EpochResult("toUnix", ecur.e, reference, toUnix(ecur.e, reference), 0)
    /\ UNCHANGED ecur

\* r.e.sub(other), for the outcome r of an add
subAfterAdd(r, other) == IF r.ok THEN sub(r.e, other) ELSE r

\* this.add(other).sub(other)
addSub(this, other) == subAfterAdd(add(this, other), other)

\* this.compare(r.e), for the outcome r of add and sub
compareAfter(this, r) == IF r.ok THEN compare(this, r.e) ELSE NumberResult(r, 0)

\* epoch.compare(epoch.add(other).sub(other))
ERoundTrip ==
    /\ ncalls < MaxEpochOps /\ ecur.made
    /\ \E other \in EpochOperands :
         EpochResult("roundTrip", ecur.e, other, compareAfter(ecur.e, addSub(ecur.e, other)),
                     addSub(ecur.e, other).e)
    /\ UNCHANGED ecur

\* Epoch.from({ number: epoch.number, index: epoch.index, length: epoch.length })
ERenormalize ==
    /\ ncalls < MaxEpochOps /\ ecur.made
    /\ EpochResult("renormalize", ecur.e,
                   EpochLike(ecur.e.number, ecur.e.index, ecur.e.length),
                   EpochFrom(EpochLike(ecur.e.number, ecur.e.index, ecur.e.length)), 0)
    /\ UNCHANGED ecur

NextEpoch == EFrom \/ EAdd \/ ESub \/ ECompare \/ EToUnix \/ ERoundTrip \/ ERenormalize

SpecEpoch == InitEpoch /\ [][NextEpoch]_vars

-----------------------------------------------------------------------------
(* findUdts (udt.ts) and findCapacities (capacity.ts and its later version)  *)

\* new CapacityManager(outputDataLenRange, isCapacityFunc); range <<>> is
\* undefined
CapacityManager(range, func) == [outputDataLenRange |-> range, isCapacityFunc |-> func]

\* CapacityManager.noOutputData() / withEmptyData()
NoOutputData == CapacityManager(<<0, 1>>, "any")

\* CapacityManager.anyOutputData() / withAnyData()
AnyOutputData == CapacityManager(<<>>, "any")

\* the caller's isCapacityFunc: () => true, or one that wants a capacity of
\* 5 at least
isCapacityFunc(m, cell) == m.isCapacityFunc = "any" \/ cell.capacity >= 5

\* the length in bytes of data given as a hex string: (length - 2) / 2
DataLen(data) == (HexLength(data) - 2) \div 2

\* whether len lies in the range [start, end)
InRange(range, len) == range[1] <= len /\ len < range[2]

\* isCapacity
isCapacity(m, cell) ==
    IF cell.type # NoType THEN FALSE
    ELSE IF m.outputDataLenRange = <<>> THEN isCapacityFunc(m, cell)
    ELSE IF InRange(m.outputDataLenRange, DataLen(cell.data)) THEN isCapacityFunc(m, cell)
    ELSE FALSE

\* client.findCells({script: lock, filter: {scriptLenRange: [0, 1),
\* outputDataLenRange}}): an honest client applies the filter, a permissive
\* one returns every live cell
ClientFindCapacityCells(cells, lock, range, perm) ==
    SelectSeq(cells, LAMBDA c :
        perm \/ (/\ scriptEq(c.lock, lock)
                 /\ c.type = NoType
                 /\ (range = <<>> \/ InRange(range, DataLen(c.data)))))

CapacityCellOf(cell) == [cell |-> cell, ckbValue |-> cell.capacity, udtValue |-> 0]

\* the cells of the query for one lock that are yielded
capacitiesOfLock(m, cells, lock, perm) ==
    SelectSeq(ClientFindCapacityCells(cells, lock, m.outputDataLenRange, perm),
              LAMBDA c : isCapacity(m, c) /\ scriptEq(c.lock, lock))

\* the records yielded for the cells found
capacityCells(got) == [i \in 1..Len(got) |-> CapacityCellOf(got[i])]

RECURSIVE findCapacitiesFrom(_, _, _, _)
\* the loop over the locks
findCapacitiesFrom(m, cells, locks, perm) ==
    IF locks = <<>> THEN <<>>
    ELSE capacityCells(capacitiesOfLock(m, cells, Head(locks), perm))
             \o findCapacitiesFrom(m, cells, Tail(locks), perm)

\* findCapacities of capacity.ts: for (const lock of locks)
findCapacities(m, cells, locks, perm) == findCapacitiesFrom(m, cells, locks, perm)

\* findCapacities of the later version: for (const lock of unique(locks))
findCapacitiesUnique(m, cells, locks, perm) ==
    findCapacitiesFrom(m, cells, unique(locks), perm)

\* the locks at most accepted in one call
MaxLocks == 3

\* the live cells: UDT cells of the signer's locks (one held by other objects
\* with the same bytes), one with short data, one of another lock, one of
\* another UDT, and cells without type script with data of 0 and 2 bytes
FindCells ==
    << Cell("f1", "lockS1", "udtA", 3, Uint128LEEncode(4), TRUE),
       Cell("f2", "lockS1'", "udtA'", 2, Uint128LEEncode(260), TRUE),
       Cell("f3", "lockS2", "udtA", 2, <<9>>, TRUE),
       Cell("f4", "lockX", "udtA", 6, Uint128LEEncode(8), TRUE),
       Cell("f5", "lockS1", NoType, 4, <<>>, TRUE),
       Cell("f6", "lockS2", NoType, 5, <<1, 2>>, TRUE),
       Cell("f7", "lockX", NoType, 6, <<>>, TRUE),
       Cell("f8", "lockS2", "udtB", 2, Uint128LEEncode(5), TRUE),
       Cell("f9", "lockS2", "udtA", 2, Uint128LEEncode(1) \o <<7, 7>>, TRUE) >>

FindChains == {FindCells, SubSeq(FindCells, 1, 4), SubSeq(FindCells, 5, 9)}

\* the locks a caller passes
FindLocks == {"lockS1", "lockS1'", "lockS2"}

LockLists == UNION {[1..n -> FindLocks] : n \in 0..MaxLocks}

FindManagers == {NoOutputData, AnyOutputData, CapacityManager(<<1, 3>>, "any"),
                 CapacityManager(<<>>, "big")}

InitFind ==
    /\ inputs = <<>>
    /\ outputs = <<>>
    /\ cellDeps = <<>>
    /\ udtHandlers = <<>>
    /\ chain \in FindChains
    /\ permissive \in BOOLEAN
    /\ call = NoCall
    /\ ncalls = 0
    /\ fee = NoCall
    /\ legacy = LegacyIdle
    /\ headers = EmptyCache
    /\ headerDeps = <<>>
    /\ hop = NoCall
    /\ objs = EmptyObjs
    /\ lop = NoCall
    /\ ecur = NoCall
    /\ eop = NoCall
    /\ fop = NoCall
    /\ heap = <<>>
    /\ mop = NoCall
    /\ run = RunIdle
    /\ bg = NoCall
    /\ bsr = NoCall
    /\ pend = NoCall

\* the record of a call consumed to its end: the locks it queried the client
\* for, in order, and the cells it yielded
FindResult(op, manager, locks, queries, yielded) ==
    /\ fop' = [made |-> TRUE, op |-> op, manager |-> manager, locks |-> locks,
               queries |-> queries, yielded |-> yielded]
    /\ ncalls' = ncalls + 1
    /\ UNCHANGED <<txVars, envVars, call, feeVars, legacyVars, headerVars, lineageVars,
                   epochVars, heapVars, runVars, utilVars>>

\* for await (const c of udtManager.findUdts(client, locks))
FFindUdts ==
    /\ ~fop.made
    /\ \E locks \in LockLists :
         FindResult("findUdts", UdtA, locks, unique(locks),
                    findUdts(UdtA, chain, locks, permissive))

\* for await (const c of capacityManager.findCapacities(client, locks))
FFindCapacities ==
    /\ ~fop.made
    /\ \E locks \in LockLists, m \in FindManagers :
         FindResult("findCapacities", m, locks, locks,
                    findCapacities(m, chain, locks, permissive))

\* the same with the later version of CapacityManager
FFindCapacitiesUnique ==
    /\ ~fop.made
    /\ \E locks \in LockLists, m \in {f \in FindManagers : f.isCapacityFunc = "any"} :
         FindResult("findCapacitiesUnique", m, locks, unique(locks),
                    findCapacitiesUnique(m, chain, locks, permissive))

NextFind == FFindUdts \/ FFindCapacities \/ FFindCapacitiesUnique

SpecFind == InitFind /\ [][NextFind]_vars

-----------------------------------------------------------------------------
(* SmartTransaction.completeFee (transaction.ts 545-580), one step per await *)
(* of a handler's completeUdt and of super.completeFee. Specification         *)
(* SpecSteps.                                                                 *)

MaxStepInputs == 1
MaxStepOutputs == 2
MaxStepHandlers == 2
MaxStepCalls == 1

\* live cells of two UDTs under the signer's locks
StepCells ==
    << Cell("k1", "lockS1", "udtA", 3, Uint128LEEncode(4), TRUE),
       Cell("b1", "lockS1", "udtB", 2, Uint128LEEncode(3), TRUE),
       Cell("k4", "lockS2", "udtA", 2, Uint128LEEncode(260), TRUE),
       Cell("b2", "lockS2", "udtB", 2, Uint128LEEncode(1), TRUE) >>

StepChains == {StepCells, SubSeq(StepCells, 1, 2), <<>>}

StepInputs ==
    { Cell("u1", "lockS1", "udtA", 2, Uint128LEEncode(3), TRUE),
      Cell("b0", "lockS1", "udtB", 2, Uint128LEEncode(6), TRUE) }

StepOutputs ==
    { Output("lockX", "udtA", 2, Uint128LEEncode(5)),
      Output("lockX", "udtB", 2, Uint128LEEncode(2)),
      Output("lockX", NoType, 3, <<>>) }

StepHandlers == {UdtA, UdtB}

InitSteps ==
    /\ inputs = <<>>
    /\ outputs = <<>>
    /\ cellDeps = <<>>
    /\ udtHandlers = <<>>
    /\ chain \in StepChains
    /\ permissive = FALSE
    /\ call = NoCall
    /\ ncalls = 0
    /\ fee = NoCall
    /\ legacy = LegacyIdle
    /\ headers = EmptyCache
    /\ headerDeps = <<>>
    /\ hop = NoCall
    /\ objs = EmptyObjs
    /\ lop = NoCall
    /\ ecur = NoCall
    /\ eop = NoCall
    /\ fop = NoCall
    /\ heap = <<>>
    /\ mop = NoCall
    /\ run = RunIdle
    /\ bg = NoCall
    /\ bsr = NoCall
    /\ pend = NoCall

\* no completeFee is running: the caller builds the transaction
Building == run.pc \in {"idle", "done", "failed"} /\ ncalls = 0

StepOthers ==
    UNCHANGED <<envVars, call, feeVars, legacyVars, headerVars, lineageVars, epochVars,
                findVars, heapVars, utilVars>>

\* tx.addInput(cell)
SAddInput ==
    /\ Building /\ Len(inputs) < MaxStepInputs
    /\ \E c \in StepInputs : inputs' = Append(inputs, c)
    /\ UNCHANGED <<outputs, cellDeps, udtHandlers, ncalls, run>>
    /\ StepOthers

\* tx.addOutput(output, data)
SAddOutput ==
    /\ Building /\ Len(outputs) < MaxStepOutputs
    /\ \E o \in StepOutputs : outputs' = Append(outputs, o)
    /\ UNCHANGED <<inputs, cellDeps, udtHandlers, ncalls, run>>
    /\ StepOthers

\* the transaction with the handlers and cellDeps of t
WithHandlers(t) == udtHandlers' = t.udtHandlers /\ cellDeps' = t.cellDeps

\* tx.addUdtHandlers(handler)
SAddUdtHandler ==
    /\ Building /\ Len(udtHandlers) < MaxStepHandlers
    /\ \E h \in StepHandlers :
         WithHandlers(addUdtHandler(Tx(inputs, outputs, cellDeps, udtHandlers), h))
    /\ UNCHANGED <<inputs, outputs, ncalls, run>>
    /\ StepOthers

\* the inputs and outputs of a transaction
Lists(ins, outs) == [inputs |-> ins, outputs |-> outs]

\* tx.completeFee(signer, change, feeRate, filter, options): up to the loop
SStart ==
    /\ run.pc \in {"idle", "done", "failed"} /\ ncalls < MaxStepCalls
    /\ \E opts \in Options :
         run' = [RunIdle EXCEPT !.pc = "handlers", !.opts = opts, !.order = udtHandlers,
                                !.start = Lists(inputs, outputs)]
    /\ ncalls' = ncalls + 1
    /\ UNCHANGED txVars
    /\ StepOthers

\* mutant: the handlers are taken from the end of the map
nextHandlerLast(hs, n) == hs[Len(hs) + 1 - n]

\* the n-th value of udtHandlers.values(): the map's insertion order
nextHandler(hs, n) == hs[n]

\* the state after the completeUdt of handler h returned or threw r
HandlerStep(h, r) ==
    /\ inputs' = r.tx.inputs
    /\ outputs' = r.tx.outputs
    /\ cellDeps' = r.tx.cellDeps
    /\ udtHandlers' = r.tx.udtHandlers
    /\ run' = [run EXCEPT
                 !.pc = IF r.res.kind = "ok" THEN "handlers" ELSE "failed",
                 !.error = IF r.res.kind = "ok" THEN "none" ELSE r.res.kind,
                 !.next = run.next + 1,
                 !.log = Append(run.log, [handler |-> h, kind |-> r.res.kind,
                                          pre |-> Lists(inputs, outputs),
                                          post |-> Lists(r.tx.inputs, r.tx.outputs)]),
                 !.inAdded = IF r.res.kind = "ok" THEN run.inAdded + r.res.inAdded
                             ELSE run.inAdded,
                 !.addedChange = IF r.res.kind = "ok" THEN run.addedChange \/ r.res.change
                                 ELSE run.addedChange]

\* one round of the loop: await handler.completeUdt(signer, this, options)
SHandler ==
    /\ run.pc = "handlers" /\ run.next <= Len(udtHandlers)
    /\ HandlerStep(nextHandler(udtHandlers, run.next),
                   completeUdt(nextHandler(udtHandlers, run.next),
                               Tx(inputs, outputs, cellDeps, udtHandlers),
                               chain, permissive, run.opts))
    /\ UNCHANGED ncalls
    /\ StepOthers

\* the state after super.completeFee returned t, or threw
BaseStep(outcome, t) ==
    /\ inputs' = IF outcome.ok THEN t.inputs ELSE inputs
    /\ outputs' = IF outcome.ok THEN t.outputs ELSE outputs
    /\ run' = [run EXCEPT
                 !.pc = IF outcome.ok THEN "check" ELSE "failed",
                 !.error = IF outcome.ok THEN "none" ELSE "baseError",
                 !.base = [made |-> TRUE, pre |-> Lists(inputs, outputs)],
                 !.inAdded = IF outcome.ok THEN run.inAdded + outcome.inputs ELSE run.inAdded,
                 !.addedChange = IF outcome.ok THEN run.addedChange \/ outcome.change
                                 ELSE run.addedChange]

\* await super.completeFee(...args), once the loop has ended
SBase ==
    /\ run.pc = "handlers" /\ run.next > Len(udtHandlers)
    /\ \E outcome \in BaseOutcomes :
         BaseStep(outcome, baseCompleteFee(Tx(inputs, outputs, cellDeps, udtHandlers), outcome))
    /\ UNCHANGED <<cellDeps, udtHandlers, ncalls>>
    /\ StepOthers

\* the NervosDAO check and the return
SCheck ==
    /\ run.pc = "check"
    /\ run' = [run EXCEPT
                 !.pc = IF tooManyDaoOutputs(inputs, outputs) THEN "failed" ELSE "done",
                 !.error = IF tooManyDaoOutputs(inputs, outputs) THEN "tooManyOutputs"
                           ELSE "none"]
    /\ UNCHANGED <<txVars, ncalls>>
    /\ StepOthers

NextSteps == SAddInput \/ SAddOutput \/ SAddUdtHandler \/ SStart \/ SHandler \/ SBase \/ SCheck

SpecSteps == InitSteps /\ [][NextSteps]_vars

-----------------------------------------------------------------------------
(* getInputsUdtBalance and getOutputsUdtBalance (udt.ts 124-199) on their own. *)
(* Specification SpecBalance.                                                  *)

MaxBalanceInputs == 2
MaxBalanceOutputs == 2
MaxBalanceCalls == 1

\* cells as inputs: UDT cells of the handler, one with short data, one of
\* another UDT, one without type script, and two that do not resolve
BalanceCells ==
    { Cell("u1", "lockS1", "udtA", 2, Uint128LEEncode(3), TRUE),
      Cell("u4", "lockX", "udtA'", 3, Uint128LEEncode(260) \o <<1>>, TRUE),
      Cell("u2", "lockS1", "udtA", 2, <<7>>, TRUE),
      Cell("u5", "lockS1", "udtB", 2, Uint128LEEncode(9), TRUE),
      Cell("u3", "lockS1", NoType, 4, <<>>, TRUE),
      Cell("u6", "lockS1", "udtA", 2, Uint128LEEncode(1), FALSE),
      Cell("u7", "lockS1", NoType, 4, <<>>, FALSE) }

\* the same cells as outputs
BalanceOutputs == {Output(c.lock, c.type, c.capacity, c.data) : c \in BalanceCells}

InitBalance ==
    /\ inputs = <<>>
    /\ outputs = <<>>
    /\ cellDeps = <<>>
    /\ udtHandlers = <<>>
    /\ chain = <<>>
    /\ permissive = FALSE
    /\ call = NoCall
    /\ ncalls = 0
    /\ fee = NoCall
    /\ legacy = LegacyIdle
    /\ headers = EmptyCache
    /\ headerDeps = <<>>
    /\ hop = NoCall
    /\ OthersIdle

BalanceOthers ==
    UNCHANGED <<cellDeps, udtHandlers, envVars, feeVars, legacyVars, headerVars, otherVars>>

\* tx.addInput(cell)
BAddInput ==
    /\ ncalls = 0 /\ Len(inputs) < MaxBalanceInputs
    /\ \E c \in BalanceCells : inputs' = Append(inputs, c)
    /\ UNCHANGED <<outputs, call, ncalls>>
    /\ BalanceOthers

\* tx.addOutput(output, data)
BAddOutput ==
    /\ ncalls = 0 /\ Len(outputs) < MaxBalanceOutputs
    /\ \E o \in BalanceOutputs : outputs' = Append(outputs, o)
    /\ UNCHANGED <<inputs, call, ncalls>>
    /\ BalanceOthers

\* the record of a call of op that returned or threw r
BalanceResult(op, r) ==
    /\ call' = [made |-> TRUE, op |-> op, ok |-> r.ok, udt |-> r.udt, capacity |-> r.capacity]
    /\ ncalls' = ncalls + 1
    /\ UNCHANGED <<inputs, outputs>>
    /\ BalanceOthers

\* await UdtA.getInputsUdtBalance(client, tx)
BGetInputs ==
    /\ ncalls < MaxBalanceCalls
    /\ BalanceResult("getInputsUdtBalance", getInputsUdtBalance(UdtA, inputs))

\* getOutputsUdtBalance never throws
Returns(b) == [ok |-> TRUE, udt |-> b.udt, capacity |-> b.capacity]

\* UdtA.getOutputsUdtBalance(tx)
BGetOutputs ==
    /\ ncalls < MaxBalanceCalls
    /\ BalanceResult("getOutputsUdtBalance", Returns(getOutputsUdtBalance(UdtA, outputs)))

NextBalance == BAddInput \/ BAddOutput \/ BGetInputs \/ BGetOutputs

SpecBalance == InitBalance /\ [][NextBalance]_vars

-----------------------------------------------------------------------------
(* The completeUdt that collects every cell found (its version with           *)
(* `await collect(this.findUdts(client, locks))`). Specification SpecCollect.  *)

\* the end of that completeUdt, for the input total inUdt and the output
\* total outUdt as the code holds them after the search that added n cells
\* to the transaction t
collectEnd(h, t, inUdt, outUdt, n, found) ==
    IF inUdt < outUdt
    THEN [tx |-> t, res |-> Result("insufficient", n, FALSE, outUdt - inUdt, h),
          found |-> found]
    ELSE IF inUdt = outUdt
    THEN [tx |-> t, res |-> Result("ok", n, FALSE, 0, h), found |-> found]
    ELSE [tx |-> [t EXCEPT !.outputs = Append(t.outputs, ChangeOutput(h, inUdt - outUdt))],
          res |-> Result("ok", n, TRUE, 0, h), found |-> found]

\* the search: every cell found is added, and the sum of their amounts is
\* added to outUdt
collectAll(h, tx, inUdt, outUdt, found) ==
    collectEnd(h, addUdts(h, tx, found), inUdt,
               outUdt + SumSeq([i \in 1..Len(found) |-> found[i].udtValue]),
               Len(found), found)

\* completeUdt after the two balances were read
collectFrom(h, tx, inB, outUdt, cells, perm) ==
    IF ~inB.ok
    THEN [tx |-> tx, res |-> Result("incomplete", 0, FALSE, 0, h), found |-> <<>>]
    ELSE IF inB.udt < outUdt
    THEN collectAll(h, tx, inB.udt, outUdt, findUdts(h, cells, SignerLocks, perm))
    ELSE collectEnd(h, tx, inB.udt, outUdt, 0, <<>>)

\* completeUdt(signer, tx) of that version
completeUdtAll(h, tx, cells, perm) ==
    collectFrom(h, tx, getInputsUdtBalance(h, tx.inputs),
                getOutputsUdtBalance(h, tx.outputs).udt, cells, perm)

MaxCollectCalls == 1

\* the state and the record a call with outcome r leaves
CollectResult(r) ==
    /\ inputs' = r.tx.inputs
    /\ outputs' = r.tx.outputs
    /\ cellDeps' = r.tx.cellDeps
    /\ udtHandlers' = r.tx.udtHandlers
    /\ call' = [made |-> TRUE, preInputs |-> inputs, preOutputs |-> outputs,
                found |-> r.found, res |-> r.res]

\* UdtA.completeUdt(signer, tx)
CollectUdt ==
    /\ ncalls < MaxCollectCalls
    /\ CollectResult(completeUdtAll(UdtA, Tx(inputs, outputs, cellDeps, udtHandlers),
                                    chain, permissive))
    /\ ncalls' = ncalls + 1
    /\ UNCHANGED <<envVars, otherVars, feeVars, legacyVars, headerVars>>

NextCollect == AddInput \/ AddOutput \/ CollectUdt

SpecCollect == Init /\ [][NextCollect]_vars

-----------------------------------------------------------------------------
(* MinHeap: the array `heap` and the caller's lessFunc. Indices are those of  *)
(* the code (from 0); the array is a sequence, so index i is position i + 1.  *)
(* Specification SpecHeap.                                                    *)

MaxHeapLen == 4
MaxValue == 3

\* the lessFunc a caller passes: "value" is (heap, i, j) => heap[i] < heap[j],
\* "key" is (heap, i, j) => heap[i].key < heap[j].key with every element
\* modelled by its key
LessFuncs == {"value", "key"}

\* heap[i] is an element of the array (any other index reads undefined)
Stored(h, i) == i >= 0 /\ i < Len(h)

\* lessFunc(heap, i, j): a comparison with undefined is false, and reading
\* the key of undefined throws a TypeError
lessFunc(k, h, i, j) ==
    IF Stored(h, i) /\ Stored(h, j)
    THEN (IF h[i + 1] < h[j + 1] THEN "true" ELSE "false")
    ELSE IF k = "key" THEN "throw" ELSE "false"

\* new MinHeap(lessFunc, heap)
MinHeap(k, h) == [lessFunc |-> k, heap |-> h]

less(m, h, i, j) == lessFunc(m.lessFunc, h, i, j)

len(m) == Len(m.heap)

swap(h, i, j) == [h EXCEPT ![i + 1] = h[j + 1], ![j + 1] = h[i + 1]]

\* x >> 1 on a 32-bit integer: the arithmetic shift rounds down, -1 >> 1 = -1
shr1(x) == x \div 2

\* the child down() compares with its parent: the smaller of the two
child(m, h, j1, n) ==
    IF j1 + 1 < n /\ less(m, h, j1 + 1, j1) = "true" THEN j1 + 1 ELSE j1

\* the loop of down(i0, n) with its variable at i: the array and the final i
RECURSIVE downFrom(_, _, _, _)
downFrom(m, h, i, n) ==
    IF 2 * i + 1 >= n \/ 2 * i + 1 < 0
    THEN [heap |-> h, i |-> i]
    ELSE IF less(m, h, child(m, h, 2 * i + 1, n), i) # "true"
    THEN [heap |-> h, i |-> i]
    ELSE downFrom(m, swap(h, i, child(m, h, 2 * i + 1, n)),
                  child(m, h, 2 * i + 1, n), n)

Moved(d, i0) == [heap |-> d.heap, moved |-> d.i > i0]

\* down(i0, n): the array after it and whether the element has moved
down(m, h, i0, n) == Moved(downFrom(m, h, i0, n), i0)

\* up(j): the array after it and whether lessFunc has thrown
RECURSIVE up(_, _, _)
up(m, h, j) ==
    IF shr1(j - 1) = j
    THEN [heap |-> h, threw |-> FALSE]
    ELSE IF less(m, h, j, shr1(j - 1)) = "throw"
    THEN [heap |-> h, threw |-> TRUE]
    ELSE IF less(m, h, j, shr1(j - 1)) = "false"
    THEN [heap |-> h, threw |-> FALSE]
    ELSE up(m, swap(h, shr1(j - 1), j), shr1(j - 1))

\* the value of a call: an element or undefined
Element(x) == [defined |-> TRUE, value |-> x]
undefined == [defined |-> FALSE]

\* what a method leaves: the object, the value returned, whether it threw
Outcome(m, h, res, threw) ==
    [heap |-> MinHeap(m.lessFunc, h), res |-> res, threw |-> threw]

\* for (let i = (n >> 1) - 1; i >= 0; i--) heap.down(i, n)
RECURSIVE heapify(_, _, _, _)
heapify(m, h, i, n) ==
    IF i < 0 THEN h ELSE heapify(m, down(m, h, i, n).heap, i - 1, n)

\* MinHeap.from(lessFunc, unordered)
from(k, unordered) ==
    MinHeap(k, heapify(MinHeap(k, unordered), unordered,
                       shr1(Len(unordered)) - 1, Len(unordered)))

\* push(x)
pushed(m, u) == Outcome(m, u.heap, undefined, u.threw)

push(m, x) == pushed(m, up(m, Append(m.heap, x), len(m)))

\* return this.heap.pop(), for the array h of n + 1 elements
popLast(m, h, n) == Outcome(m, SubSeq(h, 1, n), Element(h[n + 1]), FALSE)

\* pop()
pop(m) ==
    IF len(m) = 0
    THEN Outcome(m, m.heap, undefined, FALSE)
    ELSE popLast(m, down(m, swap(m.heap, 0, len(m) - 1), 0, len(m) - 1).heap,
                 len(m) - 1)

\* if (!this.down(i, n)) this.up(i), for the outcome d of down
upUnlessMoved(m, d, i) ==
    IF d.moved THEN [heap |-> d.heap, threw |-> FALSE] ELSE up(m, d.heap, i)

\* the end of remove(i): return this.pop(), unless up has thrown
removeEnd(m, u) ==
    IF u.threw
    THEN Outcome(m, u.heap, undefined, TRUE)
    ELSE pop(MinHeap(m.lessFunc, u.heap))

\* remove(i)
remove(m, i) ==
    IF len(m) <= i
    THEN Outcome(m, m.heap, undefined, FALSE)
    ELSE IF len(m) - 1 # i
    THEN removeEnd(m, upUnlessMoved(m, down(m, swap(m.heap, i, len(m) - 1), i,
                                            len(m) - 1), i))
    ELSE pop(m)

\* fix(i)
fix(m, i) ==
    IF len(m) <= i
    THEN Outcome(m, m.heap, undefined, FALSE)
    ELSE pushed(m, upUnlessMoved(m, down(m, m.heap, i, len(m)), i))

Values == 1..MaxValue

\* the arrays of at most MaxHeapLen elements
Arrays == UNION {[1..n -> Values] : n \in 0..MaxHeapLen}

\* a caller holds the heap of MinHeap.from(lessFunc): unordered defaults to []
InitHeap ==
    /\ inputs = <<>>
    /\ outputs = <<>>
    /\ cellDeps = <<>>
    /\ udtHandlers = <<>>
    /\ chain = <<>>
    /\ permissive = FALSE
    /\ call = NoCall
    /\ ncalls = 0
    /\ fee = NoCall
    /\ legacy = LegacyIdle
    /\ headers = EmptyCache
    /\ headerDeps = <<>>
    /\ hop = NoCall
    /\ objs = EmptyObjs
    /\ lop = NoCall
    /\ ecur = NoCall
    /\ eop = NoCall
    /\ fop = NoCall
    /\ \E k \in LessFuncs : heap = from(k, <<>>)
    /\ mop = NoCall
    /\ run = RunIdle
    /\ bg = NoCall
    /\ bsr = NoCall
    /\ pend = NoCall

\* the object and the record a call leaves; pre is the array the call found
HeapResult(op, pre, arg, r) ==
    /\ heap' = r.heap
    /\ mop' = [made |-> TRUE, op |-> op, pre |-> pre, arg |-> arg,
               res |-> r.res, threw |-> r.threw]

\* what no method of the heap touches
HeapOthers ==
    <<txVars, envVars, call, ncalls, feeVars, legacyVars, headerVars,
      lineageVars, epochVars, findVars, runVars, utilVars>>

\* heap = MinHeap.from(lessFunc, unordered), the one construction of the heap
HFrom ==
    /\ ~mop.made
    /\ \E k \in LessFuncs, xs \in Arrays :
         HeapResult("from", xs, k, Outcome(from(k, xs), from(k, xs).heap, undefined, FALSE))
    /\ UNCHANGED HeapOthers

\* heap.push(x)
HPush ==
    /\ len(heap) < MaxHeapLen
    /\ \E x \in Values : HeapResult("push", heap.heap, x, push(heap, x))
    /\ UNCHANGED HeapOthers

\* heap.pop()
HPop ==
    /\ HeapResult("pop", heap.heap, 0, pop(heap))
    /\ UNCHANGED HeapOthers

\* heap.remove(i)
HRemove ==
    /\ \E i \in 0..MaxHeapLen : HeapResult("remove", heap.heap, i, remove(heap, i))
    /\ UNCHANGED HeapOthers

\* heap.heap[i] = x; heap.fix(i)
HFix ==
    /\ \E i \in 0..(len(heap) - 1), x \in Values :
         HeapResult("fix", [heap.heap EXCEPT ![i + 1] = x], i,
                    fix(MinHeap(heap.lessFunc, [heap.heap EXCEPT ![i + 1] = x]), i))
    /\ UNCHANGED HeapOthers

\* heap.fix(i) for an index the array does not have
HFixOutside ==
    /\ \E i \in len(heap)..MaxHeapLen : HeapResult("fix", heap.heap, i, fix(heap, i))
    /\ UNCHANGED HeapOthers

NextHeap == HFrom \/ HPush \/ HPop \/ HRemove \/ HFix \/ HFixOutside

SpecHeap == InitHeap /\ [][NextHeap]_vars

-----------------------------------------------------------------------------
(* BufferedGenerator (utils.ts 221-258) over the generator object of a        *)
(* generator function. Specification SpecBuffered.                            *)

MaxSequence == 4
MaxWindow == 3
MaxAdvance == 3

\* a generator object that will yield `values`: how many it has yielded, and
\* whether it has completed (by running to its end or by return())
Generator(values) == [values |-> values, yielded |-> 0, completed |-> FALSE]

\* generator.next(): {value, done} and the generator afterwards; a completed
\* generator answers done for ever
generatorNext(g) ==
    IF g.completed \/ g.yielded = Len(g.values)
    THEN [done |-> TRUE, value |-> 0, generator |-> [g EXCEPT !.completed = TRUE]]
    ELSE [done |-> FALSE, value |-> g.values[g.yielded + 1],
          generator |-> [g EXCEPT !.yielded = g.yielded + 1]]

\* generator.return(), which for...of calls when its body breaks
generatorReturn(g) == [g EXCEPT !.completed = TRUE]

RECURSIVE populate(_, _, _)
\* the body of the constructor's for...of for the step r of the generator
populateStep(r, buffer, maxSize) ==
    IF r.done
    THEN [generator |-> r.generator, buffer |-> buffer]
    ELSE IF Len(buffer) + 1 >= maxSize
    THEN [generator |-> generatorReturn(r.generator), buffer |-> Append(buffer, r.value)]
    ELSE populate(r.generator, Append(buffer, r.value), maxSize)

\* for (const value of generator) { buffer.push(value); if (...) break; }
populate(g, buffer, maxSize) == populateStep(generatorNext(g), buffer, maxSize)

\* new BufferedGenerator(generator, maxSize)
BufferedGenerator(g, maxSize) ==
    [generator |-> populate(g, <<>>, maxSize).generator,
     buffer |-> populate(g, <<>>, maxSize).buffer,
     maxSize |-> maxSize]

\* this.buffer.shift()
shift(buffer) == IF buffer = <<>> THEN <<>> ELSE Tail(buffer)

\* one round of next(n): shift, then push the generator's value unless done
advance(b, r) ==
    [b EXCEPT !.generator = r.generator,
              !.buffer = IF r.done THEN shift(b.buffer)
                         ELSE Append(shift(b.buffer), r.value)]

RECURSIVE bufferedNext(_, _)
\* next(n)
bufferedNext(b, n) ==
    IF n <= 0 THEN b ELSE bufferedNext(advance(b, generatorNext(b.generator)), n - 1)

\* the sequences a generator function may yield
Sequences == UNION {[1..n -> {1, 2}] : n \in 0..MaxSequence}

InitBuffered ==
    /\ inputs = <<>>
    /\ outputs = <<>>
    /\ cellDeps = <<>>
    /\ udtHandlers = <<>>
    /\ chain = <<>>
    /\ permissive = FALSE
    /\ call = NoCall
    /\ ncalls = 0
    /\ fee = NoCall
    /\ legacy = LegacyIdle
    /\ headers = EmptyCache
    /\ headerDeps = <<>>
    /\ hop = NoCall
    /\ OthersIdle

BufferedOthers ==
    <<txVars, envVars, udtVars, feeVars, legacyVars, headerVars, lineageVars,
      epochVars, findVars, heapVars, runVars, bsr, pend>>

\* b = new BufferedGenerator(gen(), maxSize)
BNew ==
    /\ ~bg.made
    /\ \E values \in Sequences, maxSize \in 1..MaxWindow :
         bg' = [made |-> TRUE, values |-> values, advanced |-> 0, op |-> "new",
                b |-> BufferedGenerator(Generator(values), maxSize)]
    /\ UNCHANGED BufferedOthers

\* b.next(n)
BNext ==
    /\ bg.made
    /\ \E n \in 0..MaxAdvance :
         /\ bg.advanced + n <= MaxSequence + 1
         /\ bg' = [bg EXCEPT !.advanced = bg.advanced + n, !.op = "next",
                             !.b = bufferedNext(bg.b, n)]
    /\ UNCHANGED BufferedOthers

NextBuffered == BNew \/ BNext

SpecBuffered == InitBuffered /\ [][NextBuffered]_vars

-----------------------------------------------------------------------------
(* binarySearch and asyncBinarySearch (utils.ts 150-201). A predicate f on   *)
(* [0, n) is the sequence of its n values. Specification SpecSearch.         *)

MaxSearch == 8
MaxAnyPredicate == 4

\* f(h), for an f that answers false where the caller has not defined it
Holds(f, h) == h >= 0 /\ h < Len(f) /\ f[h + 1]

\* Math.trunc((i + j) / 2) for i, j >= 0
middle(i, j) == (i + j) \div 2

\* mutant: i = h + 2
afterFalseSkip(h) == h + 2

\* i = h + 1, which preserves f(i - 1) == false
afterFalse(h) == h + 1

RECURSIVE searchLoop(_, _, _, _)
\* while (i < j) { ... } return i, with the indices f was called on so far
searchLoop(f, i, j, calls) ==
    IF i < j
    THEN IF ~Holds(f, middle(i, j))
         THEN searchLoop(f, afterFalse(middle(i, j)), j, Append(calls, middle(i, j)))
         ELSE searchLoop(f, i, middle(i, j), Append(calls, middle(i, j)))
    ELSE [res |-> i, calls |-> calls]

\* binarySearch(n, f)
binarySearch(n, f) == searchLoop(f, 0, n, <<>>)

RECURSIVE asyncSearchLoop(_, _, _, _)
\* the loop of asyncBinarySearch: the same on locals, each f(h) awaited
\* before the next is called
asyncSearchLoop(f, i, j, calls) ==
    IF i < j
    THEN IF ~Holds(f, middle(i, j))
         THEN asyncSearchLoop(f, middle(i, j) + 1, j, Append(calls, middle(i, j)))
         ELSE asyncSearchLoop(f, i, middle(i, j), Append(calls, middle(i, j)))
    ELSE [res |-> i, calls |-> calls]

\* await asyncBinarySearch(n, f)
asyncBinarySearch(n, f) == asyncSearchLoop(f, 0, n, <<>>)

\* the predicates a caller passes with n = Len(f): every predicate on a short
\* range, and the monotone ones on longer ranges
Predicates ==
    (UNION {[1..n -> BOOLEAN] : n \in 0..MaxAnyPredicate})
        \cup {[p \in 1..n |-> p > t] : n \in 0..MaxSearch, t \in 0..MaxSearch}

InitSearch ==
    /\ inputs = <<>>
    /\ outputs = <<>>
    /\ cellDeps = <<>>
    /\ udtHandlers = <<>>
    /\ chain = <<>>
    /\ permissive = FALSE
    /\ call = NoCall
    /\ ncalls = 0
    /\ fee = NoCall
    /\ legacy = LegacyIdle
    /\ headers = EmptyCache
    /\ headerDeps = <<>>
    /\ hop = NoCall
    /\ OthersIdle

SearchOthers ==
    <<txVars, envVars, udtVars, feeVars, legacyVars, headerVars, lineageVars,
      epochVars, findVars, heapVars, runVars, bg, pend>>

SearchResult(op, f, r) ==
    bsr' = [made |-> TRUE, op |-> op, n |-> Len(f), f |-> f, calls |-> r.calls,
            res |-> r.res]

\* binarySearch(n, f)
BSearch ==
    /\ \E f \in Predicates : SearchResult("binarySearch", f, binarySearch(Len(f), f))
    /\ UNCHANGED SearchOthers

\* await asyncBinarySearch(n, f)
BAsyncSearch ==
    /\ \E f \in Predicates :
         SearchResult("asyncBinarySearch", f, asyncBinarySearch(Len(f), f))
    /\ UNCHANGED SearchOthers

NextSearch == BSearch \/ BAsyncSearch

SpecSearch == InitSearch /\ [][NextSearch]_vars

-----------------------------------------------------------------------------
(* The completeFee that starts super.completeFee without awaiting it and     *)
(* then makes the NervosDAO check (`const res = super.completeFee(...args)`, *)
(* then `await signer.client.getKnownScript(...)`): the base completion and  *)
(* the rest of the call are two tasks. Specification SpecPending.            *)

\* no such call has started the base completion
PendingIdle ==
    [pc |-> "idle", base |-> "none", baseInputs |-> 0, baseChange |-> FALSE,
     baseAtCheck |-> "none", error |-> "none",
     atReject |-> [inputs |-> <<>>, outputs |-> <<>>]]

\* a transaction of about DaoMaxOutputs plain outputs, with or without a
\* NervosDAO deposit among its inputs
InitPending ==
    /\ inputs \in {<<>>, <<Cell("d0", "lockS1", Dao, 5, EncLE(0, 8), TRUE)>>}
    /\ \E n \in (DaoMaxOutputs - 1)..(DaoMaxOutputs + 1) : outputs = [i \in 1..n |-> Filler]
    /\ cellDeps = <<>>
    /\ udtHandlers = <<>>
    /\ chain = <<>>
    /\ permissive = FALSE
    /\ call = NoCall
    /\ ncalls = 0
    /\ fee = NoCall
    /\ legacy = LegacyIdle
    /\ headers = EmptyCache
    /\ headerDeps = <<>>
    /\ hop = NoCall
    /\ objs = EmptyObjs
    /\ lop = NoCall
    /\ ecur = NoCall
    /\ eop = NoCall
    /\ fop = NoCall
    /\ heap = <<>>
    /\ mop = NoCall
    /\ run = RunIdle
    /\ bg = NoCall
    /\ bsr = NoCall
    /\ pend = PendingIdle

PendingOthers ==
    <<cellDeps, udtHandlers, envVars, udtVars, feeVars, headerVars, lineageVars,
      epochVars, findVars, heapVars, runVars, bg, bsr>>

\* const res = super.completeFee(...args): the base completion is started
\* and runs to its first await; the call goes on to await getKnownScript
PBaseStart ==
    /\ legacy.pc = "native"
    /\ legacy' = [legacy EXCEPT !.nativeStarted = TRUE, !.pc = "done"]
    /\ pend' = [pend EXCEPT !.pc = "awaitScript", !.base = "running"]
    /\ UNCHANGED <<inputs, outputs, PendingOthers>>

\* the base completion adds a capacity cell of the signer to the inputs
PBaseAddInput ==
    /\ pend.base = "running" /\ pend.baseInputs = 0 /\ ~pend.baseChange
    /\ inputs' = Append(inputs, CapacityCell)
    /\ pend' = [pend EXCEPT !.baseInputs = 1]
    /\ UNCHANGED <<outputs, legacy, PendingOthers>>

\* the base completion adds the capacity change output
PBaseAddChange ==
    /\ pend.base = "running" /\ ~pend.baseChange
    /\ outputs' = Append(outputs, CapacityChange)
    /\ pend' = [pend EXCEPT !.baseChange = TRUE]
    /\ UNCHANGED <<inputs, legacy, PendingOthers>>

\* the promise of the base completion settles
PBaseSettle ==
    /\ pend.base = "running"
    /\ \E settled \in {"resolved", "rejected"} : pend' = [pend EXCEPT !.base = settled]
    /\ UNCHANGED <<inputs, outputs, legacy, PendingOthers>>

\* the outcome of the NervosDAO check on the transaction as it is now
checked(p, ins, outs) ==
    IF tooManyDaoOutputs(ins, outs)
    THEN [p EXCEPT !.pc = "rejected", !.error = "tooManyOutputs", !.baseAtCheck = p.base,
                   !.atReject = [inputs |-> ins, outputs |-> outs]]
    ELSE [p EXCEPT !.pc = "awaitRes", !.baseAtCheck = p.base]

\* getKnownScript has resolved: isDaoTx and the test of the outputs
PCheck ==
    /\ pend.pc = "awaitScript"
    /\ pend' = checked(pend, inputs, outputs)
    /\ UNCHANGED <<inputs, outputs, legacy, PendingOthers>>

\* the outcome of `return res` once res has settled
returned(p, ins, outs) ==
    IF p.base = "resolved"
    THEN [p EXCEPT !.pc = "resolved"]
    ELSE [p EXCEPT !.pc = "rejected", !.error = "baseError",
                   !.atReject = [inputs |-> ins, outputs |-> outs]]

\* return res: the call settles as the base completion has
PReturn ==
    /\ pend.pc = "awaitRes" /\ pend.base \in {"resolved", "rejected"}
    /\ pend' = returned(pend, inputs, outputs)
    /\ UNCHANGED <<inputs, outputs, legacy, PendingOthers>>

NextPending ==
    \/ LegacyAddUdtHandler \/ LegacyStart \/ LegacyPass1 \/ LegacyPass2
    \/ PBaseStart \/ PBaseAddInput \/ PBaseAddChange \/ PBaseSettle \/ PCheck \/ PReturn

SpecPending == InitPending /\ [][NextPending]_vars

-----------------------------------------------------------------------------
(* Specification SpecShared: a transaction and its clones on one header      *)
(* cache: clone, addHeaders and getHeader in any order                       *)

MaxSharedTxs == 2
MaxSharedOps == 4

SharedHeaders == {[header |-> H2, txHash |-> T2], [header |-> H2x, txHash |-> NoTxHash]}
SharedKeys == {HeaderKey("hash", H2.hash), HeaderKey("number", 2), HeaderKey("txHash", T2)}

\* the header cache and the header deps transaction t sees
headerStateOf(o, t) ==
    HeaderState(o.caches[o.txs[t].headers], o.bodies[o.txs[t].body].headerDeps)

InitShared ==
    /\ inputs = <<>>
    /\ outputs = <<>>
    /\ cellDeps = <<>>
    /\ udtHandlers = <<>>
    /\ chain = <<>>
    /\ permissive = FALSE
    /\ call = NoCall
    /\ ncalls = 0
    /\ fee = NoCall
    /\ legacy = LegacyIdle
    /\ headers = EmptyCache
    /\ headerDeps = <<>>
    /\ hop = NoCall
    /\ objs = defaultTx(EmptyObjs)
    /\ lop = NoCall
    /\ ecur = NoCall
    /\ eop = NoCall
    /\ fop = NoCall
    /\ heap = <<>>
    /\ mop = NoCall
    /\ run = RunIdle
    /\ bg = NoCall
    /\ bsr = NoCall
    /\ pend = NoCall

\* tx.clone()
SClone ==
    /\ ncalls < MaxSharedOps /\ Len(objs.txs) < MaxSharedTxs
    /\ \E i \in Txs :
         LineageResult("clone", Len(objs.txs) + 1, i, 0, cloneTx(objs, i, FALSE),
                       TRUE, "none", 0)

\* t.addHeaders(th)
SAddHeaders ==
    /\ ncalls < MaxSharedOps
    /\ \E t \in Txs, th \in SharedHeaders :
         AddHeadersResult(t, th, addHeaders(headerStateOf(objs, t), <<th>>))

\* the record of t.getHeader(client, k) that ended as r
SharedGetResult(t, k, r) ==
    LineageResult("getHeader", t, 0, k, withHeaderState(objs, t, r.st),
                  r.st.ok, r.st.error, r.header)

\* t.getHeader(client, k)
SGetHeader ==
    /\ ncalls < MaxSharedOps
    /\ \E t \in Txs, k \in SharedKeys :
         SharedGetResult(t, k, getHeader(headerStateOf(objs, t), k))

NextShared == SClone \/ SAddHeaders \/ SGetHeader

SpecShared == InitShared /\ [][NextShared]_vars

-----------------------------------------------------------------------------
(* Claims about completeUdt, checked under Spec *)

\* UDT totals of a transaction for handler UdtA, as the claims define them
UdtInTotal(ins) == getInputsUdtBalance(UdtA, ins).udt
UdtOutTotal(outs) == getOutputsUdtBalance(UdtA, outs).udt
UdtInCapacity(ins) == getInputsUdtBalance(UdtA, ins).capacity
UdtOutCapacity(outs) == getOutputsUdtBalance(UdtA, outs).capacity

Returned == call.made /\ call.res.kind = "ok"

\* the cells the last call appended to the inputs
AddedCells == SubSeq(inputs, Len(call.preInputs) + 1, Len(inputs))

\* C1: whenever completeUdt returns normally, the UDT input total of the
\* transaction (inputs passing isUdt) equals its UDT output total (outputs
\* typed with the script, change output included).
C1_Conservation == Returned => UdtInTotal(inputs) = UdtOutTotal(outputs)

C1_Witness ==
    /\ Returned
    /\ call.res.inAdded > 0
    /\ call.res.change
    /\ UdtInTotal(inputs) > UdtOutTotal(call.preOutputs)

\* C2: completeUdt (all inputs resolvable) fails with
\* ErrorTransactionInsufficientCoin exactly when the UDT input total, the
\* added cells included, is below the UDT output total; the error carries the
\* shortfall and the handler's script, symbol and decimals.
C2_InsufficientIff ==
    (call.made /\ call.res.kind # "incomplete") =>
        /\ (call.res.kind = "insufficient")
             <=> (UdtInTotal(inputs) < UdtOutTotal(call.preOutputs))
        /\ call.res.kind = "insufficient" =>
             /\ call.res.amount = UdtOutTotal(call.preOutputs) - UdtInTotal(inputs)
             /\ call.res.script = UdtA.script
             /\ call.res.symbol = UdtA.symbol
             /\ call.res.decimals = UdtA.decimals
             /\ outputs = call.preOutputs

C2_Witness ==
    /\ call.made
    /\ call.res.kind = "insufficient"
    /\ call.res.inAdded > 0
    /\ call.res.amount > 0

\* C3: on success, with equal totals no output is appended and the result is
\* [inAdded, false]; otherwise exactly one output is appended, typed with the
\* script, locked with the signer's recommended lock, whose data is the 16-byte
\* little-endian inputTotal - outputTotal, and the result is [inAdded, true].
\* The outputs that existed before are unchanged.
C3_ChangeOutput ==
    Returned =>
        LET inT == UdtInTotal(inputs)
            outT == UdtOutTotal(call.preOutputs)
            n == Len(call.preOutputs)
        IN  /\ call.res.inAdded = Len(inputs) - Len(call.preInputs)
            /\ SubSeq(outputs, 1, n) = call.preOutputs
            /\ IF inT = outT
               THEN outputs = call.preOutputs /\ ~call.res.change
               ELSE /\ Len(outputs) = n + 1
                    /\ outputs[n + 1].type = UdtA.script
                    /\ outputs[n + 1].lock = RecommendedLock
                    /\ Len(outputs[n + 1].data) = 16
                    /\ DecLE(outputs[n + 1].data) = inT - outT
                    /\ call.res.change

C3_Witness ==
    /\ Returned
    /\ call.res.change
    /\ call.preOutputs # <<>>
    /\ Len(outputs) = Len(call.preOutputs) + 1

\* C4 (as claimed): a completeUdt call that directly follows a successful one
\* with the same options returns [0, false] and changes neither the inputs nor
\* the outputs.
C4_Idempotent ==
    (call.made /\ call.prev.made /\ call.prev.kind = "ok" /\ call.prev.opts = call.opts) =>
        /\ call.res.kind = "ok"
        /\ call.res.inAdded = 0
        /\ ~call.res.change
        /\ inputs = call.preInputs
        /\ outputs = call.preOutputs

\* totals after the first k cells of the search of the last call
AfterUdt(k) ==
    UdtInTotal(call.preInputs) + SumSeq([i \in 1..k |-> call.found[i].udtValue])
AfterCapacity(k) ==
    UdtInCapacity(call.preInputs) + SumSeq([i \in 1..k |-> call.found[i].ckbValue])
Enough(k) ==
    /\ AfterUdt(k) >= UdtOutTotal(call.preOutputs)
    /\ AfterCapacity(k) >= UdtOutCapacity(call.preOutputs)

\* C5: the cells a call adds are a prefix of the findUdts sequence and no more
\* are pulled; without compressState it is the shortest prefix after which
\* both the UDT and the capacity target are met, or the whole sequence if none
\* is; with compressState it is the whole sequence.
C5_ShortestPrefix ==
    (call.made /\ call.res.kind # "incomplete") =>
        /\ call.pulled = Len(AddedCells)
        /\ call.pulled <= Len(call.found)
        /\ \A i \in 1..call.pulled : AddedCells[i] = call.found[i].cell
        /\ call.searched /\ call.opts.compressState => call.pulled = Len(call.found)
        /\ call.searched /\ ~call.opts.compressState =>
             /\ \A k \in 0..(call.pulled - 1) : ~Enough(k)
             /\ Enough(call.pulled) \/ call.pulled = Len(call.found)

\* stopped early although cells remained, after a prefix that met the UDT
\* target before it met the capacity target
C5_Witness ==
    /\ call.made
    /\ call.searched
    /\ ~call.opts.compressState
    /\ call.pulled < Len(call.found)
    /\ \E k \in 1..(call.pulled - 1) : AfterUdt(k) >= UdtOutTotal(call.preOutputs)

-----------------------------------------------------------------------------
(* Claims about completeFee, checked under SpecFee *)

HasDaoCell ==
    \/ \E i \in 1..Len(inputs) : inputs[i].type = "dao"
    \/ \E i \in 1..Len(outputs) : outputs[i].type = "dao"

\* C6: completeFee fails with 'More than 64 output cells in a NervosDAO
\* transaction' when the transaction holds a NervosDAO input or output and
\* ends with more than 64 outputs, passes the check with 64 or fewer, and never
\* rejects a transaction without NervosDAO cell for its number of outputs.
C6_DaoCeiling ==
    fee.made =>
        /\ fee.kind = "tooManyOutputs"
             <=> (fee.reachedCheck /\ HasDaoCell /\ Len(outputs) > 64)
        /\ (fee.reachedCheck /\ HasDaoCell /\ Len(outputs) <= 64) => fee.kind = "ok"
        /\ (fee.reachedCheck /\ ~HasDaoCell) => fee.kind = "ok"

\* a NervosDAO transaction of 64 outputs that the change output of the fee
\* completion takes to 65
C6_Witness ==
    /\ fee.made
    /\ fee.kind = "tooManyOutputs"
    /\ fee.preOutputs = 64
    /\ Len(outputs) = 65

-----------------------------------------------------------------------------
(* Claims about the two-pass completeFee, checked under SpecLegacy *)

AllHandlers == 1..Len(udtHandlers)

\* C7: the second pass begins only after the first pass has completed the
\* inputs for every registered handler; if a second-pass completion reports
\* addedCount > 0 the call fails with 'UDT Handlers did not produce a balanced
\* Transaction' and the base fee completion is never started; the base fee
\* completion starts only after every handler passed the second pass with
\* zero added inputs.
C7_TwoPass ==
    /\ Len(legacy.pass2) > 0 => Len(legacy.pass1) = Len(udtHandlers)
    /\ (\E i \in 1..Len(legacy.pass2) : legacy.pass2[i] > 0) =>
         /\ legacy.pc = "failed"
         /\ legacy.error = BalanceError
         /\ ~legacy.nativeStarted
    /\ legacy.nativeStarted =>
         /\ Len(legacy.pass1) = Len(udtHandlers)
         /\ Len(legacy.pass2) = Len(udtHandlers)
         /\ \A i \in AllHandlers : legacy.pass2[i] = 0

\* two handlers; the first pass added inputs, the second pass went through for
\* the first handler and added an input for the second one
C7_Witness ==
    /\ Len(udtHandlers) = 2
    /\ legacy.pass1 = <<1, 2>>
    /\ legacy.pass2 = <<0, 1>>
    /\ legacy.pc = "failed"

\* the base fee completion started after two handlers passed both passes
C7_WitnessNative ==
    /\ Len(udtHandlers) = 2
    /\ legacy.nativeStarted
    /\ legacy.pass1 = <<2, 0>>

-----------------------------------------------------------------------------
(* Claims about the header cache and getInputsCapacity, checked under        *)
(* SpecHeaders                                                               *)

CapacityCall == hop.made /\ hop.op = "getInputsCapacity"

\* a NervosDAO withdrawal request: typed NervosDAO, data not the zero sentinel
IsWithdrawal(c) == c.type = "dao" /\ c.data # <<0, 0, 0, 0, 0, 0, 0, 0>>

Withdrawals == {i \in 1..Len(inputs) : IsWithdrawal(inputs[i])}

AllResolved == \A i \in 1..Len(inputs) : inputs[i].known

\* the cache keys of the two lookups of a withdrawal request
TxKey(c) == <<c.txHash, "txHash">>
NumberKey(c) == <<HexDigits(DecLE(c.data)), "number">>

\* what the client holds for the two lookups of a withdrawal request
WithdrawHeaders(c) == ClientHeader(HeaderKey("txHash", c.txHash))
DepositHeaders(c) == ClientHeader(HeaderKey("number", DecLE(c.data)))
NeededHeaders(c) == WithdrawHeaders(c) \cup DepositHeaders(c)

Obtainable(c) == WithdrawHeaders(c) # {} /\ DepositHeaders(c) # {}

\* the header cache held none of the two headers under any key
NotAddedBefore(c) ==
    /\ TxKey(c) \notin DOMAIN hop.preHeaders
    /\ \A h \in NeededHeaders(c) :
         /\ <<h.hash, "hash">> \notin DOMAIN hop.preHeaders
         /\ <<HexDigits(h.number), "number">> \notin DOMAIN hop.preHeaders

Memoized(c) ==
    /\ TxKey(c) \in DOMAIN headers /\ headers[TxKey(c)] \in WithdrawHeaders(c)
    /\ NumberKey(c) \in DOMAIN headers /\ headers[NumberKey(c)] \in DepositHeaders(c)

InDeps(hash, deps) == \E i \in 1..Len(deps) : deps[i] = hash

Registered(c, deps) == \A h \in NeededHeaders(c) : InDeps(h.hash, deps)

\* a getInputsCapacity call on resolvable inputs, among them withdrawal
\* requests, whose headers the client holds and the cache did not
FreshWithdrawalCall ==
    /\ CapacityCall
    /\ AllResolved
    /\ Withdrawals # {}
    /\ \A i \in Withdrawals : Obtainable(inputs[i]) /\ NotAddedBefore(inputs[i])

\* C8 (as claimed): with a withdrawal-request input whose two headers the
\* client can supply and that were not added to the transaction before,
\* getInputsCapacity succeeds, and afterwards both headers are memoized in the
\* header cache and their hashes are registered in headerDeps.
C8_Original ==
    FreshWithdrawalCall =>
        /\ hop.ok
        /\ \A i \in Withdrawals : Memoized(inputs[i]) /\ Registered(inputs[i], headerDeps)

\* C8 (amended): such a call succeeds exactly when the hashes of the needed
\* headers were already in headerDeps; it then memoizes the headers and leaves
\* headerDeps as it was. Otherwise it fails with 'Header was not present in
\* HeaderDeps', the header just fetched being cached and its hash appended to
\* headerDeps.
C8_RegisteredBefore ==
    FreshWithdrawalCall =>
        /\ hop.ok <=> \A i \in Withdrawals : Registered(inputs[i], hop.preDeps)
        /\ hop.ok =>
             /\ \A i \in Withdrawals : Memoized(inputs[i])
             /\ headerDeps = hop.preDeps
        /\ ~hop.ok =>
             /\ hop.error = "Header was not present in HeaderDeps"
             /\ headerDeps # <<>>
             /\ SubSeq(headerDeps, 1, Len(headerDeps) - 1) = hop.preDeps
             /\ ~InDeps(headerDeps[Len(headerDeps)], hop.preDeps)
             /\ <<headerDeps[Len(headerDeps)], "hash">> \in DOMAIN headers

\* the call succeeded from an empty cache, the hashes being header deps
C8_Witness ==
    /\ FreshWithdrawalCall
    /\ hop.ok
    /\ DOMAIN hop.preHeaders = {}
    /\ \A i \in Withdrawals : Memoized(inputs[i])

\* the call failed for a hash that was no header dep
C8_WitnessFailure ==
    /\ FreshWithdrawalCall
    /\ ~hop.ok
    /\ Len(hop.preDeps) = 1
    /\ Len(headerDeps) = 2

\* every lookup of the call is answered by the cache and its header is a
\* header dep
NeededCached ==
    \A i \in Withdrawals :
        /\ TxKey(inputs[i]) \in DOMAIN hop.preHeaders
        /\ NumberKey(inputs[i]) \in DOMAIN hop.preHeaders
        /\ InDeps(hop.preHeaders[TxKey(inputs[i])].hash, hop.preDeps)
        /\ InDeps(hop.preHeaders[NumberKey(inputs[i])].hash, hop.preDeps)

\* the profit of a withdrawal request, from the cached headers
Profit(c) ==
    LET free == c.capacity - c.occupied
        deposit == hop.preHeaders[NumberKey(c)]
        withdraw == hop.preHeaders[TxKey(c)]
    IN  (free * withdraw.ar) \div deposit.ar - free

RECURSIVE ExpectedLookups(_)
ExpectedLookups(ins) ==
    IF ins = <<>> THEN <<>>
    ELSE (IF IsWithdrawal(Head(ins))
          THEN <<[type |-> "txHash", value |-> Head(ins).txHash],
                 [type |-> "number", value |-> DecLE(Head(ins).data)]>>
          ELSE <<>>) \o ExpectedLookups(Tail(ins))

\* C9: with every needed header cached and registered, getInputsCapacity
\* returns the sum of the capacities of all inputs plus, for each withdrawal
\* request, calcDaoProfit(capacityFree, depositHeader, withdrawHeader) with
\* the withdraw header looked up by the input's transaction hash and the
\* deposit header by the number decoded from its data; other inputs add their
\* capacity only and cause no lookup.
C9_CapacityWithProfit ==
    (CapacityCall /\ AllResolved /\ NeededCached) =>
        /\ hop.ok
        /\ hop.ret = SumSeq([i \in 1..Len(inputs) |->
                                 inputs[i].capacity
                                 + IF i \in Withdrawals THEN Profit(inputs[i]) ELSE 0])
        /\ hop.lookups = ExpectedLookups(inputs)
        /\ headers = hop.preHeaders
        /\ headerDeps = hop.preDeps

\* a withdrawal request with a positive profit next to a fresh deposit
C9_Witness ==
    /\ CapacityCall /\ AllResolved /\ NeededCached
    /\ Withdrawals # {}
    /\ \E i \in 1..Len(inputs) : inputs[i].type = "dao" /\ ~IsWithdrawal(inputs[i])
    /\ hop.ret > SumSeq([i \in 1..Len(inputs) |-> inputs[i].capacity])

AddCall == hop.made /\ hop.op = "addHeaders"

\* the lookup keys of a header being added
KeysOf(th) ==
    {<<th.header.hash, "hash">>, <<HexDigits(th.header.number), "number">>}
        \cup (IF th.txHash # <<>> THEN {<<th.txHash, "txHash">>} ELSE {})

\* a key of the header maps in the cache to a header with another hash
Conflict(m, th) == \E k \in KeysOf(th) \cap DOMAIN m : m[k].hash # th.header.hash

\* C10: addHeaders fails with 'Found two hashes for the same header' exactly
\* when, for one of the headers it is given, a lookup key (hash, number, or
\* txHash when given) maps in the cache, as that header is reached, to a header
\* with a different hash; it never fails when every key already present maps
\* to a header with the same hash.
C10_KeyConflict ==
    AddCall =>
        /\ hop.steps # <<>>
        /\ hop.steps[1].before = hop.preHeaders
        /\ \A i \in 1..Len(hop.steps) :
             /\ hop.steps[i].th = hop.arg[i]
             /\ hop.steps[i].ok <=> ~Conflict(hop.steps[i].before, hop.steps[i].th)
             /\ i < Len(hop.steps) => hop.steps[i].ok
        /\ hop.ok <=> \A i \in 1..Len(hop.steps) : hop.steps[i].ok
        /\ hop.ok => Len(hop.steps) = Len(hop.arg)
        /\ ~hop.ok => hop.error = "Found two hashes for the same header"

\* two headers of the same number and different hashes, added to an empty cache
C10_Witness ==
    /\ AddCall
    /\ ~hop.ok
    /\ DOMAIN hop.preHeaders = {}
    /\ Len(hop.arg) = 2
    /\ hop.arg[1].header.number = hop.arg[2].header.number
    /\ hop.arg[1].header.hash # hop.arg[2].header.hash

\* a getHeader call that missed the cache and whose header the client holds
MissCall ==
    /\ hop.made /\ hop.op = "getHeader"
    /\ encodeHeaderKey(hop.arg) \notin DOMAIN hop.preHeaders
    /\ ClientHeader(hop.arg) # {}

\* the header the client supplies for the key of the call, and the
\* TransactionHeader getHeader makes of it
Fetched == CHOOSE h \in ClientHeader(hop.arg) : TRUE
FetchedWithTx ==
    [header |-> Fetched,
     txHash |-> IF hop.arg.type = "txHash" THEN hop.arg.value ELSE <<>>]

RegistrationError == "Header was not present in HeaderDeps"

\* C11 (as claimed): on a cache miss for which the client supplies the header,
\* getHeader stores the fetched header in the cache and returns it; it fails
\* with the header-registration error only if the hash of the fetched header
\* is not in headerDeps after the header was added.
C11_Original ==
    MissCall =>
        /\ hop.error = RegistrationError => ~InDeps(Fetched.hash, headerDeps)
        /\ hop.error # RegistrationError =>
             /\ hop.ok
             /\ hop.ret = Fetched
             /\ headers[encodeHeaderKey(hop.arg)] = Fetched

\* C11 (amended): on such a miss, unless a key of the fetched header maps to a
\* header of another hash (then the call fails with 'Found two hashes for the
\* same header'), the header is stored under the key, what was cached stays,
\* and its hash is in headerDeps afterwards; the call returns the header
\* exactly when the hash was in headerDeps before the call, and otherwise
\* fails with 'Header was not present in HeaderDeps', the hash having been
\* appended to headerDeps.
C11_MissNeedsDep ==
    MissCall =>
        IF Conflict(hop.preHeaders, FetchedWithTx)
        THEN ~hop.ok /\ hop.error = "Found two hashes for the same header"
        ELSE /\ headers[encodeHeaderKey(hop.arg)] = Fetched
             /\ \A k \in DOMAIN hop.preHeaders : headers[k] = hop.preHeaders[k]
             /\ InDeps(Fetched.hash, headerDeps)
             /\ hop.ok <=> InDeps(Fetched.hash, hop.preDeps)
             /\ hop.ok => hop.ret = Fetched /\ headerDeps = hop.preDeps
             /\ ~hop.ok =>
                  /\ hop.error = RegistrationError
                  /\ headerDeps = Append(hop.preDeps, Fetched.hash)

\* a miss by transaction hash answered with a header whose hash was a header dep
C11_Witness ==
    /\ MissCall
    /\ hop.arg.type = "txHash"
    /\ hop.ok
    /\ hop.ret = Fetched
    /\ headers[encodeHeaderKey(hop.arg)] = Fetched

\* a miss that failed although the client supplied the header
C11_WitnessFailure ==
    /\ MissCall
    /\ hop.error = RegistrationError
    /\ InDeps(Fetched.hash, headerDeps)

-----------------------------------------------------------------------------
(* Claims about clone, copy and addUdtHandlers, checked under SpecLineage *)

Finished(op) == lop.made /\ lop.done /\ lop.op = op

\* the keys of a udtHandlers map and the handler under a key
HandlerKeys(m) == {encodeUdtKey(m[i].script) : i \in 1..Len(m)}
HandlerAt(m, k) == m[CHOOSE i \in 1..Len(m) : encodeUdtKey(m[i].script) = k]

\* the Maps and the arrays of transaction t among the objects o
HandlersOf(o, t) == o.handlerMaps[o.txs[t].udtHandlers]
CacheOf(o, t) == o.caches[o.txs[t].headers]
BodyOf(o, t) == o.bodies[o.txs[t].body]

C12_WitnessCache ==
    /\ Finished("copy")
    /\ lop.pre.txs[lop.tx].headers # lop.pre.txs[lop.src].headers
    /\ \E k \in DOMAIN CacheOf(lop.pre, lop.tx) \cap DOMAIN CacheOf(lop.pre, lop.src) :
         CacheOf(lop.pre, lop.tx)[k] # CacheOf(lop.pre, lop.src)[k]

\* C13: clone() returns a transaction holding the very udtHandlers map and
\* headers cache of the original, as does every descendant, so that what is
\* added to them through one is seen through the other; its arrays are
\* copies with the original's values: adding an input, an output or a header
\* dependency to the clone leaves the original's arrays as they were, and
\* the other way round.
C13_CloneShares ==
    /\ \A t \in Txs :
         objs.txs[t].parent # 0 =>
             /\ objs.txs[t].udtHandlers = objs.txs[objs.txs[t].parent].udtHandlers
             /\ objs.txs[t].headers = objs.txs[objs.txs[t].parent].headers
    /\ Finished("clone") =>
         /\ objs.txs[lop.tx].parent = lop.src
         /\ BodyOf(objs, lop.tx) = BodyOf(lop.pre, lop.src)
         /\ \A t \in Txs \ {lop.tx} : objs.txs[t].body # objs.txs[lop.tx].body
         /\ \A t \in 1..Len(lop.pre.txs) :
              objs.txs[t] = lop.pre.txs[t] /\ BodyOf(objs, t) = BodyOf(lop.pre, t)
         /\ objs.handlerMaps = lop.pre.handlerMaps
         /\ objs.caches = lop.pre.caches
    /\ (lop.made /\ lop.done /\ lop.prev.made /\ lop.prev.op = "clone"
        /\ lop.op \in {"addInput", "addOutput", "addHeaders", "addUdtHandlers"}
        /\ lop.tx \in {lop.prev.tx, lop.prev.src}) =>
         LET other == IF lop.tx = lop.prev.tx THEN lop.prev.src ELSE lop.prev.tx
         IN  /\ BodyOf(objs, other) = BodyOf(lop.pre, other)
             /\ HandlersOf(objs, other) = HandlersOf(objs, lop.tx)
             /\ CacheOf(objs, other) = CacheOf(objs, lop.tx)

\* an input added to a clone, the original having none; and a header added
\* through the original right after the clone was made
C13_Witness ==
    /\ Finished("addInput")
    /\ lop.prev.made /\ lop.prev.op = "clone"
    /\ lop.tx = lop.prev.tx
    /\ BodyOf(objs, lop.prev.src).inputs = <<>>
    /\ BodyOf(objs, lop.tx).inputs # <<>>

C13_WitnessShared ==
    /\ Finished("addHeaders")
    /\ lop.ok
    /\ lop.prev.made /\ lop.prev.op = "clone"
    /\ lop.tx = lop.prev.src
    /\ DOMAIN CacheOf(objs, lop.prev.tx) # {}
    /\ BodyOf(objs, lop.prev.tx).headerDeps = <<>>
    /\ BodyOf(objs, lop.tx).headerDeps # <<>>

\* the scripts of two handlers are equal
SameScript(h1, h2) == ScriptOf(h1.script) = ScriptOf(h2.script)

\* C14: a handler map holds at most one handler per distinct UDT script; two
\* handlers with different scripts never share a key; addUdtHandlers leaves
\* the handler it was given under the key of its script (last write wins),
\* keeps the handlers of the other scripts, and the transaction's cellDeps
\* then include the handler's cellDeps next to all they included before.
C14_OnePerScript ==
    /\ \A i \in 1..Len(objs.handlerMaps) :
         \A a, b \in 1..Len(objs.handlerMaps[i]) :
             a # b => ~SameScript(objs.handlerMaps[i][a], objs.handlerMaps[i][b])
    /\ Finished("addUdtHandlers") =>
         LET m == HandlersOf(objs, lop.tx)
             before == HandlersOf(lop.pre, lop.tx)
         IN  /\ \A i \in 1..Len(before) :
                  SameScript(before[i], lop.arg)
                      <=> encodeUdtKey(before[i].script) = encodeUdtKey(lop.arg.script)
             /\ Cardinality({i \in 1..Len(m) : SameScript(m[i], lop.arg)}) = 1
             /\ \E i \in 1..Len(m) : m[i] = lop.arg
             /\ \A i \in 1..Len(before) :
                  ~SameScript(before[i], lop.arg) => \E j \in 1..Len(m) : m[j] = before[i]
             /\ \A i \in 1..Len(m) :
                  m[i] # lop.arg => \E j \in 1..Len(before) : before[j] = m[i]
             /\ \A i \in 1..Len(lop.arg.cellDeps) :
                  \E j \in 1..Len(BodyOf(objs, lop.tx).cellDeps) :
                      BodyOf(objs, lop.tx).cellDeps[j] = lop.arg.cellDeps[i]
             /\ SubSeq(BodyOf(objs, lop.tx).cellDeps, 1, Len(BodyOf(lop.pre, lop.tx).cellDeps))
                  = BodyOf(lop.pre, lop.tx).cellDeps

\* a handler replaced another handler of its script in a map of two handlers
C14_Witness ==
    /\ Finished("addUdtHandlers")
    /\ Len(HandlersOf(objs, lop.tx)) = 2
    /\ \E i \in 1..Len(HandlersOf(lop.pre, lop.tx)) :
         /\ SameScript(HandlersOf(lop.pre, lop.tx)[i], lop.arg)
         /\ HandlersOf(lop.pre, lop.tx)[i] # lop.arg

\* C15 (as claimed): completeInputs of a RestrictedTransaction returns
\* {addedCount: 0, accumulated: init} and leaves the inputs unchanged; clone()
\* of a RestrictedTransaction returns a RestrictedTransaction with the same
\* inputs, outputs, handler map and header cache.
C15_Restricted ==
    /\ (Finished("completeInputs") /\ objs.txs[lop.tx].restricted) =>
         /\ lop.ret = [addedCount |-> 0, accumulated |-> lop.arg]
         /\ objs = lop.pre
    /\ Finished("restrictedClone") =>
         /\ lop.ok
         /\ lop.tx \in Txs
         /\ objs.txs[lop.tx].restricted
         /\ BodyOf(objs, lop.tx).inputs = BodyOf(lop.pre, lop.src).inputs
         /\ BodyOf(objs, lop.tx).outputs = BodyOf(lop.pre, lop.src).outputs
         /\ objs.txs[lop.tx].udtHandlers = objs.txs[lop.src].udtHandlers
         /\ objs.txs[lop.tx].headers = objs.txs[lop.src].headers

-----------------------------------------------------------------------------
(* Claims about Epoch, checked under SpecEpoch *)

\* the last operation was op and it returned
EpochReturned(op) == eop.made /\ eop.op = op /\ eop.ok

\* the last operation was op and it threw
EpochThrew(op) == eop.made /\ eop.op = op /\ ~eop.ok

\* d divides both x and y
CommonDivisor(d, x, y) == x % d = 0 /\ y % d = 0

\* a fraction in lowest terms inside one epoch
Normalized(e) ==
    /\ e.length > 0
    /\ 0 <= e.index /\ e.index < e.length
    /\ \A d \in 2..e.length : ~CommonDivisor(d, e.index, e.length)
    /\ e.index = 0 => e.length = 1

\* x.number + x.index / x.length = y.number + y.index / y.length, for
\* positive lengths
SameValue(x, y) ==
    (x.number * x.length + x.index) * y.length = (y.number * y.length + y.index) * x.length

\* the fields of an epoch, whatever holds them
Fields(e) == <<e.number, e.index, e.length>>

\* C16: Epoch.from returns, for every triple with a positive length, an epoch
\* with length > 0, 0 <= index < length and index / length in lowest terms
\* (length 1 when index is 0) that has the value of the triple; (100, 1800,
\* 1800) becomes (101, 0, 1); every Epoch add or sub returns is of that form
C16_Normalized ==
    /\ (eop.made /\ eop.op = "from" /\ eop.other.length > 0) =>
           /\ eop.ok
           /\ Normalized(eop.res)
           /\ SameValue(eop.res, eop.other)
    /\ (EpochReturned("from") /\ Fields(eop.other) = <<100, 1800, 1800>>) =>
           Fields(eop.res) = <<101, 0, 1>>
    /\ (EpochReturned("add") \/ EpochReturned("sub")) => Normalized(eop.res)

\* Epoch.from has reduced and carried the triple (100, 1800, 1800)
C16_Witness ==
    /\ EpochReturned("from")
    /\ eop.other = EpochLike(100, 1800, 1800)
    /\ eop.res = NewEpoch(101, 0, 1)

\* Epoch.from has been given a negative index, and one beyond the length
C16_WitnessNegative == EpochReturned("from") /\ ~eop.other.isEpoch /\ eop.other.index < 0

C16_WitnessImproper ==
    EpochReturned("from") /\ ~eop.other.isEpoch /\ eop.other.index > eop.other.length

\* add has returned the sum of fractions with different denominators, and
\* sub a negative epoch
C16_WitnessAdd ==
    EpochReturned("add") /\ eop.this.length = 2 /\ eop.res.length = 6

C16_WitnessSub == EpochReturned("sub") /\ eop.res.number < 0 /\ eop.res.index > 0

\* the units a negative index borrows: the least k with index + k * length >= 0
Borrowed(like) ==
    CHOOSE k \in 1..(-like.index) :
        /\ like.index + k * like.length >= 0
        /\ like.index + (k - 1) * like.length < 0

\* C17 as stated: Epoch.from({number: 100, index: -5, length: 10}) is
\* {number: 99, index: 5, length: 10}
C17_Original ==
    (EpochReturned("from") /\ Fields(eop.other) = <<100, -5, 10>>) =>
        Fields(eop.res) = <<99, 5, 10>>

\* C17: a negative index borrows k = ceil(-index / length) units from number
\* (number -= k, index += k * length) and the fraction left is then reduced
\* to lowest terms, so that {number: 100, index: -5, length: 10} becomes
\* {number: 99, index: 1, length: 2}
C17_BorrowThenReduce ==
    /\ (EpochReturned("from") /\ ~eop.other.isEpoch /\ eop.other.index < 0) =>
           /\ eop.res.number = eop.other.number - Borrowed(eop.other)
           /\ eop.res.index * eop.other.length
                  = (eop.other.index + Borrowed(eop.other) * eop.other.length) * eop.res.length
           /\ Normalized(eop.res)
    /\ (EpochReturned("from") /\ Fields(eop.other) = <<100, -5, 10>>) =>
           Fields(eop.res) = <<99, 1, 2>>

\* Epoch.from has returned for {number: 100, index: -5, length: 10}
C17_Witness ==
    /\ EpochReturned("from")
    /\ eop.other = EpochLike(100, -5, 10)
    /\ eop.res = NewEpoch(99, 1, 2)

\* a borrow of more than one unit
C17_WitnessSeveral ==
    EpochReturned("from") /\ ~eop.other.isEpoch /\ eop.other.index < 0 /\ Borrowed(eop.other) > 1

\* the argument of the last operation is an epoch with a length that is
\* not positive (for toUnix, the epoch of the reference header)
BadLength ==
    IF eop.op = "toUnix" THEN eop.other.epoch.length <= 0 ELSE eop.other.length <= 0

\* C18: Epoch.from throws for every input with length <= 0; add, sub, compare
\* and toUnix given such an operand or reference epoch throw the same error;
\* no Epoch has a length <= 0
C18_NonPositiveLength ==
    /\ (eop.made /\ BadLength) =>
           /\ ~eop.ok
           /\ eop.error = "Non positive Epoch length"
    /\ (eop.made /\ eop.ok /\ eop.op \in {"from", "add", "sub"}) => eop.res.length > 0
    /\ ecur.made => ecur.e.length > 0
    /\ \A e \in EpochInstances : e.length > 0

\* each operation has thrown for an argument of length 0
C18_Witness ==
    EpochThrew("from") /\ eop.other.length = 0 /\ eop.other.index = 1

C18_WitnessAdd == EpochThrew("add") /\ eop.other.length = 0

C18_WitnessSub == EpochThrew("sub") /\ eop.other.length = 0

C18_WitnessCompare == EpochThrew("compare") /\ eop.other.length = 0

C18_WitnessToUnix == EpochThrew("toUnix") /\ eop.other.epoch.length = 0

C18_WitnessNegative == EpochThrew("sub") /\ eop.other.length < 0

\* the numerator of number + index / length over the denominator length
Numerator(e) == e.number * e.length + e.index

\* value(r) = value(x) + sign * value(y), for positive lengths
ValueIsSum(r, x, sign, y) ==
    Numerator(r) * x.length * y.length
        = (Numerator(x) * y.length + sign * Numerator(y) * x.length) * r.length

\* C19: a.add(b) is a normalized epoch of value value(a) + value(b), a.sub(b)
\* one of value value(a) - value(b), and a.compare(a.add(b).sub(b)) is 0
C19_AddSubExact ==
    /\ (eop.made /\ eop.op \in {"add", "sub", "roundTrip"} /\ eop.other.length > 0) => eop.ok
    /\ EpochReturned("add") =>
           Normalized(eop.res) /\ ValueIsSum(eop.res, eop.this, 1, eop.other)
    /\ EpochReturned("sub") =>
           Normalized(eop.res) /\ ValueIsSum(eop.res, eop.this, -1, eop.other)
    /\ EpochReturned("roundTrip") =>
           eop.res = 0 /\ Fields(eop.aux) = Fields(eop.this)

\* an addition of fractions with different denominators that carries
C19_Witness ==
    /\ EpochReturned("add")
    /\ eop.this.length = 2 /\ eop.other.length = 3
    /\ eop.res.length = 6
    /\ eop.res.number > eop.this.number + eop.other.number

\* an addition of fractions with one denominator
C19_WitnessEqual ==
    EpochReturned("add") /\ eop.this.length = 3 /\ eop.other.length = 3 /\ eop.other.index = 1

\* a subtraction that borrows and ends below zero
C19_WitnessSub ==
    /\ EpochReturned("sub")
    /\ eop.this.index * eop.other.length < eop.other.index * eop.this.length
    /\ eop.res.number < 0

\* a round trip through a sum with another denominator
C19_WitnessRoundTrip ==
    EpochReturned("roundTrip") /\ eop.this.length = 2 /\ eop.other.length = 3 /\ eop.other.index = 4

\* -1, 0 or 1 as x is less than, equal to or greater than y
Sign(x, y) == IF x < y THEN -1 ELSE IF x > y THEN 1 ELSE 0

\* C20: a.compare(b), for b in any form with a positive length, is -1, 0 or 1
\* as number + index / length of a is less than, equal to or greater than
\* that of b, and it is the opposite of b.compare(a)
C20_CompareByValue ==
    (eop.made /\ eop.op = "compare" /\ eop.other.length > 0) =>
        /\ eop.ok
        /\ eop.res = Sign(Numerator(eop.this) * eop.other.length,
                          Numerator(eop.other) * eop.this.length)
        /\ eop.res = -eop.aux

\* compare has found the epoch above an argument that is not normalized and
\* has the greater index, and the call the other way round the opposite
C20_Witness ==
    /\ EpochReturned("compare")
    /\ ~eop.other.isEpoch
    /\ eop.this.index < eop.other.index
    /\ eop.res = 1 /\ eop.aux = -1

\* compare has found an epoch equal to an argument that is not normalized
C20_WitnessEqual ==
    /\ EpochReturned("compare")
    /\ Fields(eop.this) # Fields(eop.other)
    /\ eop.res = 0

C20_WitnessLess == EpochReturned("compare") /\ eop.other.index < 0 /\ eop.res = -1

\* value(x) - value(y) as a fraction: its numerator over x.length * y.length
DiffNumerator(x, y) == Numerator(x) * y.length - Numerator(y) * x.length

\* the floor of timestamp + 14400000 * n / l for l > 0, the whole epochs
\* taken out of n / l first
FloorTime(timestamp, n, l) ==
    timestamp + epochInMilliseconds * (n \div l) + (epochInMilliseconds * (n % l)) \div l

\* toUnix of the last call's reference for another epoch e
UnixAt(e) == toUnix(e, eop.other).e

\* C21: toUnix(reference) is reference.timestamp + 14400000 * d.number +
\* floor(14400000 * d.index / d.length) for the normalized difference d of
\* this and reference.epoch, whose index is not negative also before the
\* reference; it is the floor of the exact time, it does not decrease as the
\* epoch grows, and it is 14401000 for epoch (1, 0, 1) and the reference
\* (0, 0, 1) at 1000
C21_ToUnix ==
    (eop.made /\ eop.op = "toUnix" /\ eop.other.epoch.length > 0) =>
        /\ eop.ok
        /\ sub(eop.this, eop.other.epoch).e.index >= 0
        /\ eop.res = eop.other.timestamp
                       + epochInMilliseconds * sub(eop.this, eop.other.epoch).e.number
                       + (epochInMilliseconds * sub(eop.this, eop.other.epoch).e.index)
                             \div sub(eop.this, eop.other.epoch).e.length
        /\ eop.res = FloorTime(eop.other.timestamp, DiffNumerator(eop.this, eop.other.epoch),
                               eop.this.length * eop.other.epoch.length)
        /\ \A e \in EpochInstances :
               /\ compareEpochs(eop.this, e) <= 0 => eop.res <= UnixAt(e)
               /\ compareEpochs(eop.this, e) >= 0 => eop.res >= UnixAt(e)
        /\ (Fields(eop.this) = <<1, 0, 1>> /\ Fields(eop.other.epoch) = <<0, 0, 1>>
                /\ eop.other.timestamp = 1000) => eop.res = 14401000

\* toUnix of epoch (1, 0, 1) for the reference (0, 0, 1) at 1000
C21_Witness ==
    /\ EpochReturned("toUnix")
    /\ Fields(eop.this) = <<1, 0, 1>>
    /\ eop.other = [epoch |-> EpochLike(0, 0, 1), timestamp |-> 1000]
    /\ eop.res = 14401000

\* toUnix of an epoch before the reference, with a fraction
C21_WitnessBefore ==
    /\ EpochReturned("toUnix")
    /\ sub(eop.this, eop.other.epoch).e.number < 0
    /\ sub(eop.this, eop.other.epoch).e.index > 0
    /\ eop.res < eop.other.timestamp

\* toUnix of an epoch whose time in milliseconds is no whole number
C21_WitnessRounded ==
    /\ EpochReturned("toUnix")
    /\ (epochInMilliseconds * sub(eop.this, eop.other.epoch).e.index)
           % sub(eop.this, eop.other.epoch).e.length # 0

\* C22: Epoch.from applied to the number, index and length of an epoch that
\* Epoch.from returned gives the same three values; so does it for any
\* triple that is normalized already
C22_Idempotent ==
    /\ (eop.made /\ eop.op = "renormalize") =>
           /\ eop.ok
           /\ ~eop.other.isEpoch
           /\ Fields(eop.res) = Fields(eop.this)
    /\ (eop.made /\ eop.op = "from" /\ Normalized(eop.other)) =>
           eop.ok /\ Fields(eop.res) = Fields(eop.other)

\* the triple of an epoch below zero with a fraction has been normalized again
C22_Witness ==
    /\ EpochReturned("renormalize")
    /\ eop.this.number < 0 /\ eop.this.index > 0
    /\ eop.prev.made /\ eop.prev.op = "from" /\ ~Normalized(eop.prev.other)

\* the triple of the epoch that (100, -5, 10) gave has been normalized again
C22_WitnessExample ==
    /\ EpochReturned("renormalize")
    /\ eop.prev.made /\ Fields(eop.prev.other) = <<100, -5, 10>>
    /\ Fields(eop.res) = <<99, 1, 2>>

-----------------------------------------------------------------------------
(* Claims about findUdts and findCapacities, checked under SpecFind *)

FindCall(op) == fop.made /\ fop.op = op

\* the positions of what the last call yielded, and of the live cells
Yields == 1..Len(fop.yielded)
Live == 1..Len(chain)

\* two scripts with the same code hash, hash type and args
EqualScripts(a, b) == ScriptOf(a) = ScriptOf(b)

\* the lock of a cell is one of the locks the call was given
LockAsked(c) == \E i \in 1..Len(fop.locks) : EqualScripts(c.lock, fop.locks[i])

\* a UDT cell of the handler: its type script and a 16-byte amount at least
UdtCellOfHandler(h, c) ==
    c.type # NoType /\ EqualScripts(c.type, h.script) /\ Len(c.data) >= 16

\* a capacity cell for the manager: no type script, the data length in the
\* configured range, accepted by the caller's function
CapacityCellOfManager(m, c) ==
    /\ c.type = NoType
    /\ m.outputDataLenRange # <<>> =>
           (m.outputDataLenRange[1] <= Len(c.data) /\ Len(c.data) < m.outputDataLenRange[2])
    /\ m.isCapacityFunc = "big" => c.capacity >= 5

\* the cell passes the classifier of the last call
Classified(c) ==
    IF fop.op = "findUdts" THEN UdtCellOfHandler(fop.manager, c)
    ELSE CapacityCellOfManager(fop.manager, c)

\* the amount the last call reports for the cell
Amount(c) == IF fop.op = "findUdts" THEN DecLE(SubSeq(c.data, 1, 16)) ELSE 0

\* a cell with a lock that was not asked for or that fails the classifier
Foreign(c) == ~Classified(c) \/ ~LockAsked(c)

\* C23: every cell findUdts yields is a live cell that passes isUdt, has the
\* lock that was queried, and comes with udtValue the amount in its data and
\* ckbValue its capacity; a cell with another lock or failing isUdt is never
\* yielded, whatever the client returns; the same for findCapacities with
\* isCapacity and udtValue 0
C23_Revalidated ==
    fop.made =>
        /\ \A i \in Yields :
               /\ \E j \in Live : chain[j] = fop.yielded[i].cell
               /\ Classified(fop.yielded[i].cell)
               /\ LockAsked(fop.yielded[i].cell)
               /\ fop.yielded[i].udtValue = Amount(fop.yielded[i].cell)
               /\ fop.yielded[i].ckbValue = fop.yielded[i].cell.capacity
        /\ \A j \in Live :
               Foreign(chain[j]) =>
                   \A i \in Yields : fop.yielded[i].cell # chain[j]

\* findUdts has yielded cells from the answer of a client that ignores the
\* filter, leaving out a UDT cell of a lock not asked for and a cell whose
\* data is short
C23_Witness ==
    /\ FindCall("findUdts")
    /\ permissive
    /\ Len(fop.yielded) >= 2
    /\ \E j \in Live : UdtCellOfHandler(UdtA, chain[j]) /\ ~LockAsked(chain[j])
    /\ \E j \in Live : LockAsked(chain[j]) /\ chain[j].type = "udtA" /\ Len(chain[j].data) < 16

\* findCapacities, in both versions, has done the same with a data range
C23_WitnessCapacities ==
    /\ FindCall("findCapacities")
    /\ permissive
    /\ fop.manager = NoOutputData
    /\ fop.yielded # <<>>
    /\ \E j \in Live : chain[j].type = NoType /\ LockAsked(chain[j]) /\ chain[j].data # <<>>

C23_WitnessCapacitiesUnique ==
    /\ FindCall("findCapacitiesUnique")
    /\ permissive
    /\ fop.manager.outputDataLenRange = <<1, 3>>
    /\ fop.yielded # <<>>
    /\ \E j \in Live : chain[j].type = NoType /\ ~LockAsked(chain[j])

\* the position at which a lock with the bytes of l first occurs in locks
FirstAt(l, locks) ==
    CHOOSE i \in 1..Len(locks) :
        /\ EqualScripts(locks[i], l)
        /\ \A j \in 1..(i - 1) : ~EqualScripts(locks[j], l)

\* the queries of the last call are for the distinct locks of its argument,
\* once each, in the order of their first occurrence
QueriedOnce ==
    /\ \A i, j \in 1..Len(fop.queries) :
           i # j => ~EqualScripts(fop.queries[i], fop.queries[j])
    /\ \A i \in 1..Len(fop.locks) :
           \E j \in 1..Len(fop.queries) : EqualScripts(fop.queries[j], fop.locks[i])
    /\ \A i \in 1..Len(fop.queries) :
           /\ \E k \in 1..Len(fop.locks) : EqualScripts(fop.locks[k], fop.queries[i])
           /\ fop.queries[i] = fop.locks[FirstAt(fop.queries[i], fop.locks)]
    /\ \A i, j \in 1..Len(fop.queries) :
           i < j => FirstAt(fop.queries[i], fop.locks) < FirstAt(fop.queries[j], fop.locks)

\* no cell is yielded twice
YieldedOnce == \A i, j \in Yields : i # j => fop.yielded[i].cell # fop.yielded[j].cell

\* C24 (as claimed): findUdts and findCapacities query each distinct lock
\* once, in the order of first occurrence, and yield a cell once at most,
\* also when a lock is several times in the list
C24_OncePerLock == fop.made => QueriedOnce /\ YieldedOnce

\* what holds: findUdts and the later findCapacities do so
C24_WhereUnique ==
    (FindCall("findUdts") \/ FindCall("findCapacitiesUnique")) => QueriedOnce /\ YieldedOnce

\* a lock is twice in the list, once as another object, and a cell of it is
\* yielded
C24_WitnessUnique ==
    /\ FindCall("findUdts")
    /\ Len(fop.locks) = 3 /\ Len(fop.queries) = 2
    /\ fop.locks[1] = "lockS1'" /\ fop.locks[3] = "lockS1"
    /\ \E i \in Yields : fop.yielded[i].cell.id = "f1"

\* findCapacities of capacity.ts yields a cell twice
C24_WitnessTwice ==
    /\ FindCall("findCapacities")
    /\ fop.locks = <<"lockS1", "lockS1">>
    /\ \E i, j \in Yields : i # j /\ fop.yielded[i].cell = fop.yielded[j].cell

-----------------------------------------------------------------------------
(* Claims about the steps of completeFee, checked under SpecSteps *)

\* a is the beginning of b
IsPrefix(a, b) == Len(a) <= Len(b) /\ SubSeq(b, 1, Len(a)) = a

\* the inputs and outputs a step found: those the step before it left
Handed(i) == IF i = 1 THEN run.start ELSE run.log[i - 1].post

\* C25: completeFee runs the handlers' completeUdt one after the other in the
\* insertion order of the map; each starts on the inputs and outputs the one
\* before it left, additions included, and only if that one returned; the
\* native completion starts after the last handler, on what it left
C25_InOrder ==
    /\ Len(run.log) <= Len(run.order)
    /\ run.pc = "handlers" => Len(run.log) = run.next - 1
    /\ \A i \in 1..Len(run.log) :
           /\ run.log[i].handler = run.order[i]
           /\ run.log[i].pre = Handed(i)
           /\ IsPrefix(run.log[i].pre.inputs, run.log[i].post.inputs)
           /\ IsPrefix(run.log[i].pre.outputs, run.log[i].post.outputs)
           /\ i < Len(run.log) => run.log[i].kind = "ok"
    /\ run.base.made =>
           /\ Len(run.log) = Len(run.order)
           /\ \A i \in 1..Len(run.log) : run.log[i].kind = "ok"
           /\ run.base.pre = Handed(Len(run.log) + 1)
    /\ run.pc \in {"check", "done"} => run.base.made
    /\ run.pc # "idle" => udtHandlers = run.order

\* two handlers have added inputs, the second after the first, and the native
\* completion has followed
C25_Witness ==
    /\ run.pc = "done"
    /\ Len(run.log) = 2
    /\ run.log[1].handler = UdtB /\ run.log[2].handler = UdtA
    /\ Len(run.log[1].post.inputs) > Len(run.log[1].pre.inputs)
    /\ Len(run.log[2].post.inputs) > Len(run.log[2].pre.inputs)
    /\ run.base.made

\* the second handler has thrown after the first had added its cells
C25_WitnessFailure ==
    /\ run.pc = "failed"
    /\ Len(run.log) = 2
    /\ run.log[2].kind = "insufficient"
    /\ run.log[1].post # run.log[1].pre
    /\ ~run.base.made

\* the amounts, as the handler h reads them, of the inputs that are UDT cells
\* of h and of the outputs with the type script of h
StepInTotal(h) ==
    SumSeq([i \in 1..Len(inputs) |->
              IF inputs[i].type # NoType /\ EqualScripts(inputs[i].type, h.script)
                 /\ Len(inputs[i].data) >= 16
              THEN DecLE(SubSeq(inputs[i].data, 1, 16)) ELSE 0])

StepOutTotal(h) ==
    SumSeq([i \in 1..Len(outputs) |->
              IF outputs[i].type # NoType /\ EqualScripts(outputs[i].type, h.script)
              THEN DecLE(SubSeq(outputs[i].data, 1, Min(16, Len(outputs[i].data)))) ELSE 0])

\* C26: when completeFee returns, every handler of the map is balanced in the
\* transaction it leaves: its UDT input total equals its UDT output total,
\* whatever the handlers after it and the native completion added
C26_AllBalanced ==
    run.pc = "done" =>
        \A i \in 1..Len(udtHandlers) :
            StepInTotal(udtHandlers[i]) = StepOutTotal(udtHandlers[i])

\* completeFee has returned after the first of two handlers added a change
\* output, the second added cells, and the native completion added an input
\* and a change output
C26_Witness ==
    /\ run.pc = "done"
    /\ Len(run.log) = 2
    /\ Len(run.log[1].post.outputs) > Len(run.log[1].pre.outputs)
    /\ Len(run.log[2].post.inputs) > Len(run.log[2].pre.inputs)
    /\ Len(inputs) > Len(run.base.pre.inputs)
    /\ Len(outputs) > Len(run.base.pre.outputs)
    /\ StepInTotal(udtHandlers[1]) > 0

-----------------------------------------------------------------------------
(* Claims about the balances of a handler, checked under SpecBalance *)

BalanceCall(op) == call.made /\ call.op = op

\* what a cell with the given type and data adds to the input totals of the
\* handler h: its amount and its capacity if it is a UDT cell of h
InputShare(h, type, data, capacity) ==
    IF type # NoType /\ EqualScripts(type, h.script) /\ Len(data) >= 16
    THEN [udt |-> DecLE(SubSeq(data, 1, 16)), capacity |-> capacity]
    ELSE [udt |-> 0, capacity |-> 0]

InputShares(h) ==
    [i \in 1..Len(inputs) |->
        InputShare(h, inputs[i].type, inputs[i].data, inputs[i].capacity)]

\* what the outputs would add as inputs
OutputShares(h) ==
    [i \in 1..Len(outputs) |->
        InputShare(h, outputs[i].type, outputs[i].data, outputs[i].capacity)]

Udts(shares) == SumSeq([i \in 1..Len(shares) |-> shares[i].udt])
Capacities(shares) == SumSeq([i \in 1..Len(shares) |-> shares[i].capacity])

\* getInputsUdtBalance throws if some input does not resolve, and else
\* returns the sums over the inputs that are UDT cells of the handler
InputsSummed ==
    BalanceCall("getInputsUdtBalance") =>
        /\ call.ok <=> \A i \in 1..Len(inputs) : inputs[i].known
        /\ call.ok => /\ call.udt = Udts(InputShares(UdtA))
                      /\ call.capacity = Capacities(InputShares(UdtA))

\* C27 (as claimed): getInputsUdtBalance is the sum of the amounts and of the
\* capacities of the inputs that are UDT cells of the handler, and fails if
\* any input cannot be resolved; getOutputsUdtBalance is the same sum over the
\* outputs: a cell adds to it what it would add as an input
C27_Balances ==
    /\ InputsSummed
    /\ BalanceCall("getOutputsUdtBalance") =>
           /\ call.ok
           /\ call.udt = Udts(OutputShares(UdtA))
           /\ call.capacity = Capacities(OutputShares(UdtA))

\* what holds of the inputs
C27_InputsOnly == InputsSummed

\* the inputs' sums over two UDT cells among other inputs, and the failure
\* for an input without type script that does not resolve
C27_WitnessInputs ==
    /\ BalanceCall("getInputsUdtBalance")
    /\ call.ok /\ call.udt = 263 /\ call.capacity = 5

C27_WitnessUnresolved ==
    /\ BalanceCall("getInputsUdtBalance")
    /\ ~call.ok
    /\ \A i \in 1..Len(inputs) : inputs[i].type # "udtA"

\* an output with the handler's type script and one byte of data is counted
C27_WitnessShortData ==
    /\ BalanceCall("getOutputsUdtBalance")
    /\ outputs = <<Output("lockS1", "udtA", 2, <<7>>)>>
    /\ call.udt = 7 /\ call.capacity = 2

-----------------------------------------------------------------------------
(* Claims about the completeUdt that collects every cell, under SpecCollect *)

\* the amounts of the cells the last call found
FoundTotal == SumSeq([i \in 1..Len(call.found) |-> call.found[i].udtValue])

\* the inputs of the last call were short of its outputs
WasShort == UdtInTotal(call.preInputs) < UdtOutTotal(call.preOutputs)

\* the cells found cover what was missing
Covered == UdtInTotal(call.preInputs) + FoundTotal >= UdtOutTotal(call.preOutputs)

\* C28 (as claimed): when the inputs are short of the outputs and the cells
\* found cover the shortfall, the call returns [cells added, change added]
\* and leaves UDT inputs equal to UDT outputs; it fails with 'Insufficient
\* coin' only when the inputs with the added cells are still short
C28_CollectAll ==
    (call.made /\ call.res.kind # "incomplete") =>
        /\ (WasShort /\ Covered) =>
               /\ call.res.kind = "ok"
               /\ call.res.inAdded = Len(call.found)
               /\ AddedCells = [i \in 1..Len(call.found) |-> call.found[i].cell]
               /\ call.res.change <=> Len(outputs) = Len(call.preOutputs) + 1
               /\ UdtInTotal(inputs) = UdtOutTotal(outputs)
        /\ call.res.kind = "insufficient" => ~Covered

\* what holds: a call that finds its inputs short always throws, and one that
\* does not returns with the balance closed
C28_ShortAlwaysThrows ==
    (call.made /\ call.res.kind # "incomplete") =>
        /\ WasShort => call.res.kind = "insufficient"
        /\ ~WasShort => (call.res.kind = "ok" /\ UdtInTotal(inputs) = UdtOutTotal(outputs))

\* the call has thrown although the cells it added cover the outputs
C28_WitnessThrown ==
    /\ call.made /\ call.res.kind = "insufficient"
    /\ call.found # <<>> /\ Covered
    /\ UdtInTotal(inputs) > UdtOutTotal(outputs)

-----------------------------------------------------------------------------
(* Claims about MinHeap, checked under SpecHeap *)

HeapCall(op) == mop.made /\ mop.op = op

\* no element of the array h is less than its parent
HeapOrder(h) == \A j \in 2..Len(h) : ~(h[j] < h[j \div 2])

\* how many times x is stored in h
Count(h, x) == Cardinality({p \in 1..Len(h) : h[p] = x})

\* h holds what g holds and x once more
OneMore(h, g, x) ==
    \A v \in 1..(MaxValue + 1) : Count(h, v) = Count(g, v) + (IF v = x THEN 1 ELSE 0)

SameElements(h, g) == \A v \in 1..(MaxValue + 1) : Count(h, v) = Count(g, v)

\* C29 (as claimed): remove(i) with 0 <= i < len returns the element that
\* was stored at index i and leaves the other len - 1 elements in heap order;
\* with i >= len it returns undefined and changes nothing
C29_RemoveAt ==
    HeapCall("remove") =>
        IF mop.arg < Len(mop.pre)
        THEN /\ mop.res = Element(mop.pre[mop.arg + 1])
             /\ OneMore(mop.pre, heap.heap, mop.pre[mop.arg + 1])
             /\ HeapOrder(heap.heap)
        ELSE mop.res = undefined /\ heap.heap = mop.pre

\* what holds of remove(i): a call that returns has removed one stored
\* element, the one it returns, and the rest is in heap order
C29_RemovesOne ==
    (HeapCall("remove") /\ ~mop.threw) =>
        IF mop.arg < Len(mop.pre)
        THEN /\ mop.res.defined
             /\ OneMore(mop.pre, heap.heap, mop.res.value)
             /\ HeapOrder(heap.heap)
        ELSE mop.res = undefined /\ heap.heap = mop.pre

\* remove(i) has returned an element other than the one at index i, which
\* is still stored
C29_WitnessOther ==
    /\ HeapCall("remove") /\ ~mop.threw
    /\ mop.arg < Len(mop.pre) /\ HeapOrder(mop.pre)
    /\ mop.res.defined /\ mop.res.value # mop.pre[mop.arg + 1]
    /\ Count(heap.heap, mop.pre[mop.arg + 1]) = Count(mop.pre, mop.pre[mop.arg + 1])

C29_WitnessOutside ==
    HeapCall("remove") /\ mop.arg >= Len(mop.pre) /\ Len(mop.pre) > 0

\* C30: from the heap of MinHeap.from on, after every push, pop, remove and
\* fix the array is in heap order; pop returns undefined exactly on the empty
\* heap and otherwise removes and returns an element no stored element is
\* less than; push adds only the pushed element, pop takes only the returned
C30_HeapOrder ==
    /\ HeapOrder(heap.heap)
    /\ HeapCall("from") => SameElements(heap.heap, mop.pre)
    /\ HeapCall("fix") => SameElements(heap.heap, mop.pre)
    /\ HeapCall("push") => OneMore(heap.heap, mop.pre, mop.arg)
    /\ HeapCall("pop") =>
          /\ ~mop.threw
          /\ mop.res.defined <=> mop.pre # <<>>
          /\ mop.res.defined =>
                /\ \A p \in 1..Len(mop.pre) : ~(mop.pre[p] < mop.res.value)
                /\ OneMore(mop.pre, heap.heap, mop.res.value)
          /\ ~mop.res.defined => heap.heap = mop.pre

\* what holds: the same for a lessFunc that answers false on an index the
\* array does not have, and only such a lessFunc never throws
C30_OrderWhenTolerant ==
    /\ heap.lessFunc = "value" => C30_HeapOrder
    /\ (mop.made /\ mop.threw) => heap.lessFunc = "key"

\* a remove has stopped at the TypeError of lessFunc(heap, 0, -1) and has
\* left the array out of heap order
C30_WitnessDisordered ==
    /\ HeapCall("remove") /\ mop.threw /\ HeapOrder(mop.pre)
    /\ ~HeapOrder(heap.heap)

\* a pop has taken the minimum of a heap of several different elements
C30_Witness ==
    /\ HeapCall("pop") /\ mop.res.defined
    /\ Len(mop.pre) = MaxHeapLen
    /\ \E p \in 1..Len(mop.pre) : mop.res.value < mop.pre[p]
    /\ heap.heap # SubSeq(mop.pre, 2, Len(mop.pre))

\* from has reordered an unordered array
C30_WitnessFrom ==
    HeapCall("from") /\ ~HeapOrder(mop.pre) /\ Len(mop.pre) = MaxHeapLen

\* a push has moved its element up to the root
C30_WitnessPush ==
    /\ HeapCall("push") /\ Len(mop.pre) >= 3
    /\ heap.heap[1] = mop.arg /\ mop.pre[1] # mop.arg

\* a fix has moved the changed element down, another one up
C30_WitnessFixDown ==
    /\ HeapCall("fix") /\ ~HeapOrder(mop.pre) /\ mop.arg = 0
    /\ heap.heap # mop.pre

C30_WitnessFixUp ==
    /\ HeapCall("fix") /\ ~HeapOrder(mop.pre) /\ mop.arg > 0
    /\ heap.heap # mop.pre /\ heap.heap[1] = mop.pre[mop.arg + 1]

C30_WitnessEmptyPop ==
    HeapCall("pop") /\ mop.pre = <<>> /\ mop.res = undefined

\* lessFunc has thrown on the index -1 that up(0) passes it
C30_WitnessThrow ==
    HeapCall("push") /\ mop.threw /\ heap.lessFunc = "key"

\* C40 (as claimed): no operation of the heap hands lessFunc an index outside
\* [0, len). The lessFunc that reads the key of its elements throws exactly
\* when it is handed such an index, so no call of the heap throws
C40_IndicesInRange == mop.made => ~mop.threw

\* a push onto the empty heap has called lessFunc(heap, 0, -1)
C40_WitnessEmptyPush ==
    HeapCall("push") /\ mop.pre = <<>> /\ mop.threw

\* an element that rose to the root of a heap of several has done the same
C40_WitnessRisen ==
    /\ HeapCall("push") /\ Len(mop.pre) >= 2 /\ mop.threw
    /\ heap.heap[1] = mop.arg /\ mop.pre[1] # mop.arg

-----------------------------------------------------------------------------
(* Claims about BufferedGenerator, checked under SpecBuffered *)

\* the values at positions k .. k + size - 1 of the sequence (counted
\* from 0), fewer where the sequence ends
Window(values, k, size) ==
    IF k >= Len(values) THEN <<>>
    ELSE SubSeq(values, k + 1, Min(k + size, Len(values)))

\* C31 (as claimed): the buffer is a window of maxSize values that slides
\* over the sequence: the first min(maxSize, N) values after construction,
\* the values at positions k .. k + maxSize - 1 after next calls of total k;
\* it never holds more than maxSize values
C31_SlidingWindow ==
    bg.made =>
        /\ bg.b.buffer = Window(bg.values, bg.advanced, bg.b.maxSize)
        /\ Len(bg.b.buffer) <= bg.b.maxSize

\* what holds: the constructor leaves its generator completed, so that the
\* buffer is what is left of the first min(maxSize, N) values and is never
\* refilled
C31_NeverRefilled ==
    bg.made =>
        /\ bg.b.generator.completed
        /\ bg.b.buffer = Window(Window(bg.values, 0, bg.b.maxSize), bg.advanced, bg.b.maxSize)
        /\ Len(bg.b.buffer) <= bg.b.maxSize

\* a next(n) has dropped values of a full buffer and has pushed none, with
\* values of the sequence still to come
C31_WitnessShrunk ==
    /\ bg.made /\ bg.op = "next" /\ bg.advanced > 0
    /\ bg.advanced + bg.b.maxSize <= Len(bg.values)
    /\ Len(bg.b.buffer) < bg.b.maxSize
    /\ bg.b.generator.yielded = bg.b.maxSize

-----------------------------------------------------------------------------
(* Claims about binarySearch, checked under SpecSearch *)

\* f is monotone on [0, n): once true, true on every later index
Monotone(f) == \A p, q \in 1..Len(f) : (p <= q /\ f[p]) => f[q]

\* the smallest index of [0, n) where f is true, n if there is none
LowerBound(f) ==
    IF \E p \in 1..Len(f) : f[p]
    THEN (CHOOSE p \in 1..Len(f) : f[p] /\ \A q \in 1..(p - 1) : ~f[q]) - 1
    ELSE Len(f)

\* C32: for a predicate monotone on [0, n), binarySearch and
\* asyncBinarySearch call f only on indices of [0, n), on no index twice,
\* and return the smallest index where f is true, or n if there is none
C32_LowerBound ==
    (bsr.made /\ Monotone(bsr.f)) =>
        /\ bsr.res = LowerBound(bsr.f)
        /\ \A c \in 1..Len(bsr.calls) : bsr.calls[c] >= 0 /\ bsr.calls[c] < bsr.n
        /\ \A c, d \in 1..Len(bsr.calls) : bsr.calls[c] = bsr.calls[d] => c = d

\* a search over the longest range has found an index inside it
C32_Witness ==
    /\ bsr.made /\ bsr.op = "binarySearch" /\ Monotone(bsr.f)
    /\ bsr.n = MaxSearch /\ bsr.res > 0 /\ bsr.res < bsr.n - 1
    /\ Len(bsr.calls) >= 3

C32_WitnessAsync ==
    /\ bsr.made /\ bsr.op = "asyncBinarySearch" /\ Monotone(bsr.f)
    /\ bsr.n = MaxSearch /\ bsr.res > 0 /\ bsr.res < bsr.n - 1

\* no index holds: the search returns n; n = 0: f is never called
C32_WitnessNone ==
    bsr.made /\ bsr.n > 1 /\ bsr.res = bsr.n /\ \A p \in 1..bsr.n : ~bsr.f[p]

C32_WitnessEmpty == bsr.made /\ bsr.n = 0 /\ bsr.res = 0 /\ bsr.calls = <<>>

\* on a predicate that is not monotone the result is not the smallest index
C32_WitnessNotMonotone ==
    bsr.made /\ ~Monotone(bsr.f) /\ bsr.res # LowerBound(bsr.f)

-----------------------------------------------------------------------------
(* Claims about the completeFee that does not await, under SpecPending *)

\* C33 (as claimed): the NervosDAO check is evaluated only after the base
\* fee completion has finished; a call that resolves on a NervosDAO
\* transaction leaves at most 64 outputs, the change output of the base
\* completion included; after a rejection the transaction is not mutated
C33_CheckSeesFinal ==
    /\ pend.baseAtCheck \in {"none", "resolved", "rejected"}
    /\ (pend.pc = "resolved" /\ isDaoTx(inputs, outputs)) => Len(outputs) <= DaoMaxOutputs
    /\ pend.pc = "rejected" =>
          (inputs = pend.atReject.inputs /\ outputs = pend.atReject.outputs)

\* the call has resolved on a NervosDAO transaction of 65 outputs: the check
\* ran while the base completion had not yet added its change output
C33_WitnessOver ==
    /\ pend.pc = "resolved" /\ pend.baseAtCheck = "running"
    /\ isDaoTx(inputs, outputs) /\ Len(outputs) = DaoMaxOutputs + 1
    /\ pend.baseChange

\* the check has rejected and the base completion has gone on to add its
\* change output
C33_WitnessMutatedAfter ==
    /\ pend.pc = "rejected" /\ pend.error = "tooManyOutputs"
    /\ Len(outputs) = Len(pend.atReject.outputs) + 1

\* the order the claim expects is one of the orders: the check after the end
C33_WitnessAfter ==
    /\ pend.pc = "rejected" /\ pend.error = "tooManyOutputs"
    /\ pend.baseAtCheck = "resolved" /\ pend.baseChange

-----------------------------------------------------------------------------
(* Claims about headerDeps and the entries of the header cache, checked      *)
(* under SpecHeaders                                                         *)

\* the positions of hash in deps
Positions(deps, hash) == {i \in 1..Len(deps) : deps[i] = hash}

NoDuplicates(deps) ==
    \A i, j \in 1..Len(deps) : deps[i] = deps[j] => i = j

\* the hashes of the headers of a call that were no header deps before it, in
\* the order of their first occurrence
RECURSIVE NewHashes(_, _)
NewHashes(deps, ths) ==
    IF ths = <<>> THEN <<>>
    ELSE IF InDeps(Head(ths).header.hash, deps)
    THEN NewHashes(deps, Tail(ths))
    ELSE <<Head(ths).header.hash>>
             \o NewHashes(Append(deps, Head(ths).header.hash), Tail(ths))

\* C34: headerDeps, free of duplicates at first, stays free of duplicates; a
\* successful addHeaders leaves the hash of each header it was given exactly
\* once in headerDeps, at its old position if it was there and appended at
\* the end otherwise; and a key that already mapped to a header keeps that
\* very header, also when a header with the same hash and another content is
\* added.
C34_NoDuplicateDeps ==
    /\ NoDuplicates(headerDeps)
    /\ (AddCall /\ hop.ok) =>
         /\ headerDeps = hop.preDeps \o NewHashes(hop.preDeps, hop.arg)
         /\ \A i \in 1..Len(hop.arg) :
              /\ Cardinality(Positions(headerDeps, hop.arg[i].header.hash)) = 1
              /\ InDeps(hop.arg[i].header.hash, hop.preDeps) =>
                   Positions(headerDeps, hop.arg[i].header.hash)
                       = Positions(hop.preDeps, hop.arg[i].header.hash)
              /\ \A k \in KeysOf(hop.arg[i]) :
                   /\ k \in DOMAIN headers
                   /\ headers[k].hash = hop.arg[i].header.hash
                   /\ k \in DOMAIN hop.preHeaders => headers[k] = hop.preHeaders[k]

\* H1b was added with txHash T1 while H1 was cached under the same hash, the
\* hash being a header dep already and not the last one: H1 stays under the
\* hash and the number, and it is also H1 that is filed under T1
C34_Witness ==
    /\ AddCall /\ hop.ok
    /\ \E i \in 1..Len(hop.arg) : hop.arg[i] = [header |-> H1b, txHash |-> T1]
    /\ <<H1.hash, "hash">> \in DOMAIN hop.preHeaders
    /\ hop.preHeaders[<<H1.hash, "hash">>] = H1
    /\ <<T1, "txHash">> \notin DOMAIN hop.preHeaders
    /\ headers[<<T1, "txHash">>] = H1
    /\ Len(hop.preDeps) = 2 /\ hop.preDeps[1] = H1.hash
    /\ headerDeps = hop.preDeps

\* a call of two headers appended both hashes, in the order given
C34_WitnessAppended ==
    /\ AddCall /\ hop.ok
    /\ hop.preDeps = <<H2.hash>>
    /\ Len(hop.arg) = 2
    /\ headerDeps = <<H2.hash, H1.hash>>

GetCall == hop.made /\ hop.op = "getHeader"

\* the same getHeader call, made again on the state the call left
Retried == getHeader(HeaderState(headers, headerDeps), hop.arg)

\* C37 (as claimed): a getHeader call that fails leaves the header cache and
\* headerDeps as they were, and the same call made again at once fails in
\* the same way.
C37_Repeatable ==
    (GetCall /\ ~hop.ok) =>
        /\ headers = hop.preHeaders
        /\ headerDeps = hop.preDeps
        /\ ~Retried.st.ok
        /\ Retried.st.error = hop.error

\* the lookup missed the cache, the client supplied the header, and the call
\* failed for the header dep it had appended itself: the header is cached and
\* its hash is a header dep now, and the call made again returns the header
C37_WitnessRetrySucceeds ==
    /\ GetCall /\ ~hop.ok
    /\ hop.error = "Header was not present in HeaderDeps"
    /\ encodeHeaderKey(hop.arg) \notin DOMAIN hop.preHeaders
    /\ encodeHeaderKey(hop.arg) \in DOMAIN headers
    /\ Len(headerDeps) = Len(hop.preDeps) + 1
    /\ Retried.st.ok
    /\ Retried.header = headers[encodeHeaderKey(hop.arg)]

\* what holds: a call that fails on a cache hit, or because the client has no
\* such header, changes nothing and fails again in the same way
C37_RepeatableWithoutFetch ==
    (GetCall /\ ~hop.ok /\ hop.error \in {"Header not found in HeaderDeps", "Header not found"}) =>
        /\ headers = hop.preHeaders
        /\ headerDeps = hop.preDeps
        /\ ~Retried.st.ok
        /\ Retried.st.error = hop.error

C37_WitnessHitFails ==
    /\ GetCall /\ ~hop.ok /\ hop.error = "Header not found in HeaderDeps"

\* the key of the cache matches the header filed under it
Matches(k, h) ==
    \/ k[2] = "hash" /\ k[1] = h.hash
    \/ k[2] = "number" /\ k[1] = HexDigits(h.number)
    \/ k[2] = "txHash"

\* the headers the cache holds under any key
Cached(m) == {m[k] : k \in DOMAIN m}

\* C38 (as claimed): in every state of the header cache, after addHeaders
\* calls that succeeded or failed, every key maps to a header matching it (a
\* hash key to a header with that hash, a number key to a header with that
\* number), and the cache does not hold two headers with the same number and
\* different hashes.
C38_CacheConsistent ==
    /\ \A k \in DOMAIN headers : Matches(k, headers[k])
    /\ \A a, b \in Cached(headers) : a.number = b.number => a.hash = b.hash

\* what holds: every key maps to a header matching it, and as long as no
\* call has failed with a conflict no two cached headers share a number
C38_KeysMatch ==
    /\ \A k \in DOMAIN headers : Matches(k, headers[k])
    /\ (hop.made /\ hop.ok /\ (\A a, b \in Cached(hop.preHeaders) : a.number = b.number => a.hash = b.hash))
          => \A a, b \in Cached(headers) : a.number = b.number => a.hash = b.hash

\* addHeaders of H2x failed on the number key held by H2, after it had filed
\* H2x under its hash key: the cache holds both headers of number 2
C38_WitnessTwoOfANumber ==
    /\ AddCall /\ ~hop.ok /\ hop.error = ConflictError
    /\ <<H2x.hash, "hash">> \notin DOMAIN hop.preHeaders
    /\ <<H2x.hash, "hash">> \in DOMAIN headers
    /\ headers[<<HexDigits(2), "number">>] = H2

-----------------------------------------------------------------------------
(* Claim about getHeader on a shared header cache, checked under SpecShared  *)

SharedGetCall == lop.made /\ lop.op = "getHeader"

\* the header deps of transaction t
DepsOf(o, t) == o.bodies[o.txs[t].body].headerDeps

\* the header is one the requested key asks for: of that hash, of that
\* number, or the header of the block holding that transaction
Requested(k, h) ==
    \/ k.type = "hash" /\ h.hash = k.value
    \/ k.type = "number" /\ h.number = k.value
    \/ k.type = "txHash" /\ \E c \in ClientHeader(k) : c.hash = h.hash

\* C39: for an original and its clones on one header cache, and clone,
\* addHeaders and getHeader in any order on them: a header getHeader returns
\* on transaction T matches the requested key and its hash is among T's own
\* headerDeps, before and after the call; a header cached through another
\* transaction is not returned to T without being a header dep of T.
C39_ReturnedIsOwnDep ==
    (SharedGetCall /\ lop.ok) =>
        /\ Requested(lop.arg, lop.ret)
        /\ InDeps(lop.ret.hash, DepsOf(objs, lop.tx))
        /\ InDeps(lop.ret.hash, DepsOf(lop.pre, lop.tx))

\* getHeader on the clone returned from the shared cache a header that was
\* cached through the original; the clone had its hash among its own header
\* deps, the call before having been the clone's addHeaders
C39_Witness ==
    /\ SharedGetCall /\ lop.ok
    /\ lop.tx = 2
    /\ encodeHeaderKey(lop.arg) \in DOMAIN lop.pre.caches[lop.pre.txs[2].headers]
    /\ lop.pre.txs[2].headers = lop.pre.txs[1].headers
    /\ lop.prev.made /\ lop.prev.op = "addHeaders" /\ lop.prev.tx = 2
    /\ InDeps(lop.ret.hash, DepsOf(objs, 1))

\* the header was cached through the original and is no header dep of the
\* clone: getHeader on the clone fails
C39_WitnessRefused ==
    /\ SharedGetCall /\ ~lop.ok /\ lop.error = "Header not found in HeaderDeps"
    /\ lop.tx = 2
    /\ DepsOf(objs, 2) = <<>>
    /\ DepsOf(objs, 1) # <<>>

-----------------------------------------------------------------------------
(* Claims about the inputs completeUdt adds and about a failed completeUdt,  *)
(* checked under Spec                                                        *)

\* no out-point is spent twice: the cells of ins are different cells
DistinctOutPoints(ins) ==
    \A i, j \in 1..Len(ins) : ins[i].id = ins[j].id => i = j

\* C35 (as claimed): completeUdt adds no cell that is an input already: with
\* no out-point twice among the inputs before the call there is none twice
\* after it, also when the search yields a cell the transaction spends.
C35_NoInputTwice ==
    (call.made /\ DistinctOutPoints(call.preInputs)) => DistinctOutPoints(inputs)

\* the transaction spent u1, the client still listed u1 as a live cell of the
\* signer, and the call added u1 again
C35_WitnessSpentTwice ==
    /\ call.made /\ call.res.kind = "ok"
    /\ Len(call.preInputs) = 1 /\ call.preInputs[1].id = "u1"
    /\ call.pulled >= 1 /\ call.found[1].cell.id = "u1"
    /\ Len(inputs) >= 2 /\ inputs[2].id = "u1"

\* what holds: the cells one call adds are different cells, and a call that
\* finds none of the cells already spent leaves no out-point twice
C35_AddedOnce ==
    call.made =>
        /\ DistinctOutPoints([i \in 1..call.pulled |-> call.found[i].cell])
        /\ (/\ DistinctOutPoints(call.preInputs)
            /\ \A i \in 1..call.pulled, j \in 1..Len(call.preInputs) :
                  call.found[i].cell.id # call.preInputs[j].id)
              => DistinctOutPoints(inputs)

\* C36 (as claimed): a completeUdt that fails with the insufficient-coin
\* error leaves the transaction as it was before the call: inputs, outputs
\* with their data, and cellDeps are unchanged.
C36_FailureLeavesTx ==
    (call.made /\ call.res.kind = "insufficient") =>
        /\ inputs = call.preInputs
        /\ outputs = call.preOutputs
        /\ cellDeps = call.preCellDeps

\* the search found cells, not enough of them; they are inputs now and the
\* cell deps of the handler are cell deps of the transaction
C36_WitnessAddedThenThrown ==
    /\ call.made /\ call.res.kind = "insufficient"
    /\ call.pulled >= 1
    /\ Len(inputs) = Len(call.preInputs) + call.pulled
    /\ call.preCellDeps = <<>> /\ cellDeps # <<>>
    /\ outputs = call.preOutputs

\* what holds: the failed call leaves the outputs as they were, and leaves
\* all of the transaction as it was when it has added no cell
C36_FailureWithoutCells ==
    (call.made /\ call.res.kind = "insufficient") =>
        /\ outputs = call.preOutputs
        /\ SubSeq(inputs, 1, Len(call.preInputs)) = call.preInputs
        /\ call.pulled = 0 => (inputs = call.preInputs /\ cellDeps = call.preCellDeps)

C36_WitnessNothingFound ==
    /\ call.made /\ call.res.kind = "insufficient"
    /\ call.searched /\ call.pulled = 0

=============================================================================
